---- MODULE Spec2Model ----
(***************************************************************************)
(* A model of the Agent-to-Agent (A2A) subsystem of synapse:               *)
(*   - MessageQueue.js        the durable broker (Redis streams, consumer  *)
(*                            groups, retry with backoff, dead-lettering)  *)
(*   - SimpleMessageQueue.js  the pub/sub broker (fire and forget)         *)
(*   - AgentOrchestrator.js, A2AService.js, BaseAgent.js (further below)   *)
(*                                                                         *)
(* Redis commands are modelled by their Redis semantics: XADD appends an   *)
(* entry to a stream, XREADGROUP ... '>' hands the group the next entry    *)
(* never delivered and puts it in the pending entries list, XACK removes   *)
(* it from that list; PUBLISH reaches the connections subscribed to the    *)
(* channel at that moment and is stored nowhere.                           *)
(*                                                                         *)
(* Time is counted in whole seconds: Date.now() and the ISO timestamp of a *)
(* message both have millisecond precision and the conversion between them *)
(* loses nothing, so the age of a message is the difference of two clock   *)
(* readings.                                                               *)
(***************************************************************************)
EXTENDS Integers, Sequences, FiniteSets, TLC

VARIABLES
    mode,       \* which broker the deployment uses: "durable" or "pubsub"
    now,        \* the clock, in seconds (Date.now() / 1000)
    nextId,     \* the next generated message id (uuidv4() never repeats)
    \* ---- MessageQueue.js (durable broker), one session
    stream,     \* stream[r]: the entries of a2a:<session>:<r>, oldest first
    lastRead,   \* lastRead[r]: the consumer group's last-delivered entry
    pel,        \* pel[r]: entries delivered and not acknowledged
    subscribed, \* subscribed[r]: a consumer loop runs for r
    timers,     \* pending setTimeout callbacks of retryMessage
    dlq,        \* a2a:dlq:<session>
    mqlog,      \* a2a:log:<session>
    ev,         \* ev[r]: what the consumer of r did, in order (history)
    \* ---- SimpleMessageQueue.js (pub/sub broker)
    listeners,  \* listeners[ch]: the callbacks subscribed to channel ch, in order
    inflight,   \* callbacks to run for the messages published, in arrival order
    phistory,   \* the list a2a:history:<session>, newest first
    pev,        \* what the subscriber callbacks did, in order (history)
    published,  \* every PUBLISH made, one per recipient, in order (history)
    \* ---- AgentOrchestrator.js, A2AService.js, BaseAgent.js
    workflow,   \* workflow[s]: sessionWorkflows.get(s) of the orchestrator
    orchAgents, \* the keys of the orchestrator's activeAgents map
    svcAgents,  \* the keys of the service's activeAgents map, in insertion order
    agent,      \* agent[a]: the agent runtime a (one instance for all sessions)
    starting,   \* starting[s]: the agents A2AService.startSession has yet to activate
    outcome,    \* of the last sendMessage / sendMessageToAgent / broadcastMessage
                \* call: the ids it returned and the failures it logged
    can,        \* a call of BaseAgent.canHandleTask: its inputs and its result
    memory,     \* memory[a]: memory.conversations of the agent runtime a
    arrived,    \* arrived[a]: every message handleMessage of a was called with,
                \* in arrival order (history)
    required,   \* a requirement text and what the two determineRequiredAgents
                \* derive from it
    \* ---- the brokers, with the handlers of their subscribers as spans
    consumer,   \* consumer[r]: where the consumer loop of stream r is:
                \* "reading" (in XREADGROUP) or "handling" (awaiting the handler)
    running,    \* running[r]: the messages of stream / channel r whose handler
                \* was called and has not settled, in the order of the calls
    messageHandlers \* the Map messageHandlers of the broker: consumerId -> handler

mqVars == <<stream, lastRead, pel, subscribed, timers, dlq, mqlog, ev>>
psVars == <<listeners, inflight, phistory, pev, published>>
a2aVars == <<workflow, orchAgents, svcAgents, agent, starting>>
memVars == <<memory, arrived>>
loopVars == <<consumer, running, messageHandlers>>
vars == <<mode, now, nextId, mqVars, psVars, a2aVars, outcome, can, memVars, required,
          loopVars>>

(***************************************************************************)
(* Bounds of the model.                                                    *)
(***************************************************************************)
MaxMsgs == 2    \* sendMessage calls in one behaviour
MaxTime == 6    \* the clock stops here

(***************************************************************************)
(* Program constants.                                                      *)
(***************************************************************************)
DefaultMaxRetries == 3
DefaultTtl == 300
DefaultPriority == 5

\* Session ids are strings; they are modelled as tuples of characters, so that
\* key.startsWith(sessionId) can be computed.  "s1" is a prefix of "s10".
Session == <<"s", "1">>
Session10 == <<"s", "1", "0">>
Sessions == {Session, Session10}
Architectrix == "architectrix"
CodeConjurer == "code_conjurer"
Recipients == {Architectrix, CodeConjurer}

\* A value the caller did not supply (undefined).
Absent == -1

\* The values for which (v || d) is d: undefined and 0.
Falsy(v) == v = Absent \/ v = 0

\* What a call gave its caller: the message ids it returned, and the agents
\* for which it logged a failure instead (broadcastMessage only).
Outcome(ids, logged) == [ids |-> ids, logged |-> logged]

\* return messageId
Returned(ids) == Outcome(ids, <<>>)

\* No determineRequiredAgents call under consideration.
NoSelection ==
    [text |-> [found |-> {}, shouted |-> {}], orchestrator |-> {}, service |-> {}]

\* No canHandleTask call under consideration.
NoCall == [capabilities |-> {}, specialization |-> <<>>, type |-> <<>>, result |-> {}]

(***************************************************************************)
(* JSON.parse(JSON.stringify(payload)): a stream entry and a published     *)
(* message hold the serialised text, the consumer parses it.  Of the       *)
(* payloads modelled, "obj" is a plain object and survives, "nan" is a     *)
(* NaN (or undefined in an array), which JSON writes as null.              *)
(***************************************************************************)
Payloads == {"obj", "nan"}

JsonRoundTripPayload(p) == IF p = "nan" THEN "null" ELSE p

JsonRoundTrip(m) == [m EXCEPT !.payload = JsonRoundTripPayload(@)]

(***************************************************************************)
(* MessageQueue.sendMessage: the enriched message.                         *)
(***************************************************************************)
EnrichedMessage(message, messageId, timestamp) ==
    [id            |-> messageId,
     timestamp     |-> timestamp,
     type          |-> message.type,
     sessionId     |-> message.sessionId,
     fromAgent     |-> message.fromAgent,
     toAgent       |-> message.toAgent,
     payload       |-> message.payload,
     correlationId |-> IF Falsy(message.correlationId) THEN messageId
                       ELSE message.correlationId,
     priority      |-> IF Falsy(message.priority) THEN DefaultPriority
                       ELSE message.priority,
     ttl           |-> IF Falsy(message.ttl) THEN DefaultTtl ELSE message.ttl,
     status        |-> "sent",
     retryCount    |-> 0,
     maxRetries    |-> DefaultMaxRetries]

\* An audit record that names the first recipient of the message.
LogRecordOfFirstRecipient(message, messageId, recipient) ==
    [event |-> "message_sent", messageId |-> messageId,
     fromAgent |-> message.fromAgent, toAgent |-> Head(message.toAgent),
     type |-> message.type]

\* The audit record of one recipient's copy.
LogRecord(message, messageId, recipient) ==
    [event |-> "message_sent", messageId |-> messageId,
     fromAgent |-> message.fromAgent, toAgent |-> recipient, type |-> message.type]

\* toAgent is an array of recipients; one recipient stands for the scalar form
\* (Array.isArray(toAgent) ? toAgent : [toAgent]).
RecipientsOf(message) == message.toAgent

\* The requests the callers of the durable broker make.
MQRequest(to, p, c, t) ==
    [type |-> "task", sessionId |-> Session, fromAgent |-> "user",
     toAgent |-> to, payload |-> p, correlationId |-> c,
     priority |-> Absent, ttl |-> t]

MQRequests ==
    { MQRequest(<<Architectrix>>, "nan", 77, Absent),
      MQRequest(<<Architectrix>>, "obj", Absent, 1),
      MQRequest(<<Architectrix, CodeConjurer>>, "obj", Absent, Absent) }

\* The entries appended to stream r by the loop over the recipients.
RECURSIVE XAddAll(_, _, _)
XAddAll(str, recipients, entry) ==
    IF recipients = <<>> THEN str
    ELSE XAddAll([str EXCEPT ![Head(recipients)] = Append(@, entry)],
                 Tail(recipients), entry)

RECURSIVE LogAll(_, _, _)
LogAll(log, recipients, message) ==
    IF recipients = <<>> THEN log
    ELSE LogAll(Append(log, LogRecord(message, message.id, Head(recipients))),
                Tail(recipients), message)

MQSendMessage(message) ==
    /\ mode = "durable"
    /\ nextId <= MaxMsgs
    /\ LET enriched == EnrichedMessage(message, nextId, now)
           entry == [msg |-> JsonRoundTrip(enriched), from |-> 0]
       IN /\ stream' = XAddAll(stream, RecipientsOf(message), entry)
          /\ mqlog' = LogAll(mqlog, RecipientsOf(message), enriched)
    /\ nextId' = nextId + 1
    /\ outcome' = Returned(<<nextId>>)
    /\ UNCHANGED <<can, required, memVars, loopVars, mode, now, lastRead, pel, subscribed, timers, dlq, ev, psVars, a2aVars>>

(***************************************************************************)
(* MessageQueue.subscribeToMessages: XGROUP CREATE stream group '0'        *)
(* MKSTREAM (BUSYGROUP is swallowed), then the consumer loop starts.  One  *)
(* consumer loop serves a (session, agent) stream.                         *)
(***************************************************************************)
MQSubscribeToMessages(r) ==
    /\ mode = "durable"
    /\ ~subscribed[r]
    /\ subscribed' = [subscribed EXCEPT ![r] = TRUE]
    /\ UNCHANGED <<can, required, memVars, loopVars, outcome, mode, now, nextId, stream, lastRead, pel, timers, dlq, mqlog, ev,
                   psVars, a2aVars>>

\* messageAge > messageData.ttl
MessageAge(m, t) == t - m.timestamp

\* An expiry check against the default ttl instead of the message's own.
ExpiredByDefaultTtl(m, t) == MessageAge(m, t) > DefaultTtl

Expired(m, t) == MessageAge(m, t) > m.ttl

DlqIds == {dlq[i].msg.id : i \in DOMAIN dlq}

(***************************************************************************)
(* retryMessage.                                                           *)
(***************************************************************************)
\* A retry that rebuilt the message and lost the caller's correlation id.
RetriedMessageDataRebuilt(m) ==
    [m EXCEPT !.retryCount = @ + 1, !.correlationId = m.id]

\* messageData.retryCount = (messageData.retryCount || 0) + 1
RetriedMessageData(m) == [m EXCEPT !.retryCount = @ + 1]

\* Math.pow(2, retryCount) * 1000 ms
BackoffDelay(retryCount) == 2 ^ retryCount

WillRetry(m) == m.retryCount < m.maxRetries

\* What one iteration of the consumer loop did with the entry it read.
\* old: the entry was older than its ttl when it was read; dl: its message was
\* in the dead-letter record by then.
Event(kind, m) ==
    [kind |-> kind, old |-> now - m.timestamp > m.ttl, dl |-> m.id \in DlqIds]

(***************************************************************************)
(* One iteration of the consumer loop of consumeMessages: XREADGROUP       *)
(* COUNT 1 '>' hands over the next entry never delivered; an expired       *)
(* message is acknowledged and skipped; else the handler runs, and either  *)
(* returns (XACK) or throws (retryMessage: a timer that will re-append the *)
(* message, or the dead-letter record and XACK).  ev[r][e] records what    *)
(* happened to entry e.  A dead-letter record holds the message; src, the  *)
(* stream entry it was written for, is history, and the failure time that  *)
(* the code writes beside the message is left out.                         *)
(***************************************************************************)
MQConsumeExpired(r) ==
    /\ subscribed[r]
    /\ lastRead[r] < Len(stream[r])
    /\ LET e == lastRead[r] + 1
           m == stream[r][e].msg
       IN /\ Expired(m, now)
          /\ lastRead' = [lastRead EXCEPT ![r] = e]
          /\ ev' = [ev EXCEPT ![r] = Append(@, Event("expired", m))]
    /\ UNCHANGED <<can, required, memVars, loopVars, outcome, mode, now, nextId, stream, pel, subscribed, timers, dlq, mqlog, psVars, a2aVars>>

MQConsumeOk(r) ==
    /\ subscribed[r]
    /\ lastRead[r] < Len(stream[r])
    /\ LET e == lastRead[r] + 1
           m == stream[r][e].msg
       IN /\ ~Expired(m, now)
          /\ lastRead' = [lastRead EXCEPT ![r] = e]
          /\ ev' = [ev EXCEPT ![r] = Append(@, Event("ok", m))]
    /\ UNCHANGED <<can, required, memVars, loopVars, outcome, mode, now, nextId, stream, pel, subscribed, timers, dlq, mqlog, psVars, a2aVars>>

MQConsumeFail(r) ==
    /\ subscribed[r]
    /\ lastRead[r] < Len(stream[r])
    /\ LET e == lastRead[r] + 1
           m == stream[r][e].msg
           retried == RetriedMessageData(m)
       IN /\ ~Expired(m, now)
          /\ lastRead' = [lastRead EXCEPT ![r] = e]
          /\ ev' = [ev EXCEPT ![r] = Append(@, Event("fail", m))]
          /\ IF WillRetry(retried)
             THEN /\ timers' = timers \cup
                        {[r |-> r, entry |-> e, msg |-> retried,
                          at |-> now + BackoffDelay(retried.retryCount)]}
                  /\ pel' = [pel EXCEPT ![r] = @ \cup {e}]
                  /\ dlq' = dlq
             ELSE /\ timers' = timers
                  /\ pel' = pel
                  /\ dlq' = Append(dlq, [msg |-> JsonRoundTrip(retried),
                                         src |-> <<r, e>>])
    /\ UNCHANGED <<can, required, memVars, loopVars, outcome, mode, now, nextId, stream, subscribed, mqlog, psVars, a2aVars>>

\* The setTimeout callback: XADD the incremented message, XACK the original.
MQRetryTimer(t) ==
    /\ t \in timers
    /\ now >= t.at
    /\ stream' = [stream EXCEPT ![t.r] =
                     Append(@, [msg |-> JsonRoundTrip(t.msg), from |-> t.entry])]
    /\ pel' = [pel EXCEPT ![t.r] = @ \ {t.entry}]
    /\ timers' = timers \ {t}
    /\ UNCHANGED <<can, required, memVars, loopVars, outcome, mode, now, nextId, lastRead, subscribed, dlq, mqlog, ev, psVars, a2aVars>>

Tick ==
    /\ now < MaxTime
    /\ now' = now + 1
    /\ UNCHANGED <<can, required, memVars, loopVars, outcome, mode, nextId, mqVars, psVars, a2aVars>>

(***************************************************************************)
(* SimpleMessageQueue.js: the pub/sub broker.                              *)
(*                                                                         *)
(* A channel a2a:<session>:<recipient> is the pair <<session, recipient>>. *)
(* PUBLISH reaches the callbacks subscribed to the channel at that moment; *)
(* the one subscriber connection receives the messages in the order they   *)
(* were published and runs the callbacks of a channel in the order they    *)
(* subscribed, so inflight is a queue of (callback, message).              *)
(***************************************************************************)
Channel(sessionId, recipient) == <<sessionId, recipient>>


\* SimpleMessageQueue.sendMessage: the enriched message (no retry fields).
SimpleEnrichedMessage(message, messageId, timestamp) ==
    [id            |-> messageId,
     timestamp     |-> timestamp,
     type          |-> message.type,
     sessionId     |-> message.sessionId,
     fromAgent     |-> message.fromAgent,
     toAgent       |-> message.toAgent,
     payload       |-> message.payload,
     correlationId |-> IF Falsy(message.correlationId) THEN messageId
                       ELSE message.correlationId,
     priority      |-> IF Falsy(message.priority) THEN DefaultPriority
                       ELSE message.priority,
     ttl           |-> IF Falsy(message.ttl) THEN DefaultTtl ELSE message.ttl,
     status        |-> "sent"]

HistoryRecord(enriched, recipient) ==
    [event |-> "message_sent", messageId |-> enriched.id,
     fromAgent |-> enriched.fromAgent, toAgent |-> recipient,
     type |-> enriched.type, timestamp |-> enriched.timestamp]

\* redis.publish(channel, text): one callback run per callback subscribed.
RECURSIVE Callbacks(_, _, _)
Callbacks(ch, subs, msg) ==
    IF subs = <<>> THEN <<>>
    ELSE <<[ch |-> ch, who |-> Head(subs), msg |-> msg]>>
         \o Callbacks(ch, Tail(subs), msg)

\* The loop over the recipients: publish the serialised message (wire), then
\* LPUSH the history record.
RECURSIVE PublishAll(_, _, _, _)
PublishAll(queue, recipients, wire, subs) ==
    IF recipients = <<>> THEN queue
    ELSE PublishAll(
           queue \o Callbacks(Channel(wire.sessionId, Head(recipients)),
                              subs[Channel(wire.sessionId, Head(recipients))],
                              wire),
           Tail(recipients), wire, subs)

\* The PUBLISH commands of the loop, one per recipient.
RECURSIVE PublishedAll(_, _, _)
PublishedAll(pub, recipients, wire) ==
    IF recipients = <<>> THEN pub
    ELSE PublishedAll(Append(pub, [to |-> Head(recipients), msg |-> wire]),
                      Tail(recipients), wire)

RECURSIVE HistoryAll(_, _, _)
HistoryAll(hist, recipients, enriched) ==
    IF recipients = <<>> THEN hist
    ELSE HistoryAll(<<HistoryRecord(enriched, Head(recipients))>> \o hist,
                    Tail(recipients), enriched)

\* The requests the callers of the pub/sub broker make.
PSRequests ==
    { MQRequest(<<Architectrix>>, "obj", Absent, Absent),
      MQRequest(<<Architectrix>>, "nan", 77, 1),
      MQRequest(<<Architectrix, CodeConjurer>>, "obj", Absent, 2) }

PSSendMessage(message) ==
    /\ mode = "pubsub"
    /\ nextId <= MaxMsgs
    /\ LET enriched == SimpleEnrichedMessage(message, nextId, now)
       IN /\ inflight' = PublishAll(inflight, RecipientsOf(message),
                                    JsonRoundTrip(enriched), listeners)
          /\ phistory' = HistoryAll(phistory, RecipientsOf(message), enriched)
          /\ published' = PublishedAll(published, RecipientsOf(message),
                                       JsonRoundTrip(enriched))
    /\ nextId' = nextId + 1
    /\ outcome' = Returned(<<nextId>>)
    /\ UNCHANGED <<can, required, memVars, loopVars, mode, now, mqVars, listeners, pev, a2aVars>>

\* SimpleMessageQueue.subscribeToMessages by a client of the broker.
PSSubscribeToMessages(r) ==
    /\ mode = "pubsub"
    /\ listeners[Channel(Session, r)] = <<>>
    /\ listeners' = [listeners EXCEPT ![Channel(Session, r)] = Append(@, "client")]
    /\ UNCHANGED <<can, required, memVars, loopVars, outcome, mode, now, nextId, mqVars, inflight, phistory, pev, published, a2aVars>>

\* The callback of subscribeToMessages: an expired message is skipped, else the
\* handler is called.
PSCallbackExpired ==
    /\ inflight # <<>>
    /\ Head(inflight).who = "client"
    /\ Expired(Head(inflight).msg, now)
    /\ inflight' = Tail(inflight)
    /\ pev' = Append(pev, [kind |-> "expired", id |-> Head(inflight).msg.id,
                           r |-> Head(inflight).ch[2],
                           old |-> now - Head(inflight).msg.timestamp
                                     > Head(inflight).msg.ttl])
    /\ UNCHANGED <<can, required, memVars, loopVars, outcome, mode, now, nextId, mqVars, listeners, phistory, published, a2aVars>>

PSCallbackHandler ==
    /\ inflight # <<>>
    /\ Head(inflight).who = "client"
    /\ ~Expired(Head(inflight).msg, now)
    /\ inflight' = Tail(inflight)
    /\ pev' = Append(pev, [kind |-> "handed", id |-> Head(inflight).msg.id,
                           r |-> Head(inflight).ch[2],
                           old |-> now - Head(inflight).msg.timestamp
                                     > Head(inflight).msg.ttl])
    /\ UNCHANGED <<can, required, memVars, loopVars, outcome, mode, now, nextId, mqVars, listeners, phistory, published, a2aVars>>

(***************************************************************************)
(* AgentOrchestrator.js, A2AService.js, BaseAgent.js.                      *)
(*                                                                         *)
(* Identifiers made of words joined by '_' (task types, specializations,   *)
(* capability tags) are tuples of their words, so that split('_')[0],      *)
(* `${specialization}_implementation` and includes() are computed; on the  *)
(* identifiers modelled, includes() on the strings and on the tuples of    *)
(* words agree.                                                            *)
(*                                                                         *)
(* A handler is one step, from its call to its end: the awaits of a        *)
(* handler are broker commands.  Two handlers interleaved at their awaits  *)
(* are modelled where the handler reads state another handler writes       *)
(* meanwhile (the progress reports of the executors, further below).  The  *)
(* orchestrator's lastSeen, the agents' average response time and the time *)
(* stamps of tasks are left out.                                           *)
(***************************************************************************)
MaxIds == 9     \* ids (uuidv4) generated in one behaviour of the A2A model
MaxStarts == 2  \* startSession calls in one behaviour
MaxUserMsgs == 1 \* sendMessageToAgent calls in one behaviour
MaxAssignments == 2 \* task assignments a caller sends in one behaviour

\* str.includes(sub)
Includes(str, sub) ==
    \E i \in 0 .. (Len(str) - Len(sub)) : SubSeq(str, i + 1, i + Len(sub)) = sub

\* str.startsWith(prefix)
StartsWith(str, prefix) ==
    /\ Len(prefix) <= Len(str)
    /\ SubSeq(str, 1, Len(prefix)) = prefix

\* `${sessionId}:${agentId}`, the key of both activeAgents maps
Key(sessionId, agentId) == sessionId \o <<":", agentId>>

\* key.split(':')[1]
KeyAgent(key) == key[Len(key)]

\* AgentOrchestrator.initializeAgentCapabilities: the registry, in the order
\* of the Map.
AgentCapabilities ==
    << [id |-> Architectrix,         specialization |-> <<"system", "architecture">>],
       [id |-> CodeConjurer,         specialization |-> <<"code", "generation">>],
       [id |-> "api_architect",      specialization |-> <<"api", "design">>],
       [id |-> "frontend_developer", specialization |-> <<"frontend", "development">>],
       [id |-> "backend_developer",  specialization |-> <<"backend", "development">>],
       [id |-> "technical_writer",   specialization |-> <<"documentation">>] >>

RegisteredIds == {AgentCapabilities[i].id : i \in DOMAIN AgentCapabilities}

\* The channels of the sessions: of the agents, of the orchestrator, of the user.
Channels ==
    {Channel(s, r) : s \in Sessions, r \in RegisteredIds \cup {"orchestrator", "user"}}

\* this.agentCapabilities.get(agentId).specialization
SpecializationOf(agentId) ==
    AgentCapabilities[CHOOSE i \in DOMAIN AgentCapabilities :
                          AgentCapabilities[i].id = agentId].specialization

NoAgent == "none"

\* AgentOrchestrator.findReplacementAgent: the first other agent of the
\* registry with the same specialization, or null.
RECURSIVE FindReplacementFrom(_, _, _)
FindReplacementFrom(registry, specialization, excludeAgent) ==
    IF registry = <<>> THEN NoAgent
    ELSE IF /\ Head(registry).id # excludeAgent
            /\ Head(registry).specialization = specialization
         THEN Head(registry).id
         ELSE FindReplacementFrom(Tail(registry), specialization, excludeAgent)

FindReplacementAgent(specialization, excludeAgent) ==
    FindReplacementFrom(AgentCapabilities, specialization, excludeAgent)

\* A2AService.initializeAgents: the agent runtimes that exist.
Agents == {Architectrix, CodeConjurer}

\* The constructors of ArchitectrixAgent and CodeConjurerAgent.
RuntimeSpecialization(a) ==
    IF a = Architectrix THEN <<"system", "architecture">> ELSE <<"code", "generation">>

RuntimeCapabilities(a) ==
    IF a = Architectrix
    THEN { <<"system", "design">>, <<"architecture", "planning">>,
           <<"technology", "selection">>, <<"scalability", "analysis">>,
           <<"performance", "optimization">>, <<"security", "architecture">>,
           <<"integration", "patterns">>, <<"microservices", "design">> }
    ELSE { <<"code", "writing">>, <<"code", "review">>, <<"refactoring">>,
           <<"debugging">>, <<"testing">>, <<"optimization">>,
           <<"documentation">>, <<"best", "practices">> }

\* The task types the switch of executeTask knows; any other type throws.
SupportedTaskTypes(a) ==
    IF a = Architectrix
    THEN { <<"requirements", "analysis">>, <<"system", "architecture">>,
           <<"technology", "selection">>, <<"scalability", "analysis">>,
           <<"performance", "optimization">>, <<"security", "architecture">> }
    ELSE { <<"code", "generation">>, <<"code", "implementation">>,
           <<"code", "review">>, <<"refactoring">>, <<"debugging">>,
           <<"testing">>, <<"optimization">>,
           <<"frontend", "implementation">>, <<"backend", "implementation">>,
           <<"api", "implementation">> }

\* BaseAgent.canHandleTask of an agent with these capabilities and this
\* specialization: capabilities.some(cap => cap.includes(taskType) ||
\* task.type.includes(this.specialization)), taskType the first word of the type.
CanHandle(capabilities, specialization, task) ==
    LET taskType == <<Head(task.type)>>
    IN \E cap \in capabilities :
           \/ Includes(cap, taskType)
           \/ Includes(task.type, specialization)

\* BaseAgent.canHandleTask of the runtime a
CanHandleTask(a, task) ==
    CanHandle(RuntimeCapabilities(a), RuntimeSpecialization(a), task)

(***************************************************************************)
(* Tasks, payloads and workflows.                                          *)
(***************************************************************************)
RequirementsAnalysis == <<"requirements", "analysis">>

AnalysisPriority == 10
ImplementationPriority == 7

Task(id, type, assignedAgent, status, priority) ==
    [id |-> id, type |-> type, assignedAgent |-> assignedAgent,
     status |-> status, priority |-> priority, previousAgent |-> NoAgent]

NoTask == Task(Absent, <<>>, NoAgent, "none", Absent)

\* The fields of the payloads of the messages modelled; a payload carries the
\* fields of its message type, the others are undefined ("none", Absent).
Payload(task, taskId, result, severity, status) ==
    [task |-> task, taskId |-> taskId, result |-> result,
     severity |-> severity, status |-> status,
     urgency |-> "none", targetAgent |-> NoAgent, requestingAgent |-> NoAgent]

\* JSON.parse(JSON.stringify(message)) of a message with such a payload: the
\* task is copied, a result that JSON cannot write comes back as null.
JsonRoundTripA2A(m) == [m EXCEPT !.payload.result = JsonRoundTripPayload(@)]

A2AMessage(type, sessionId, fromAgent, toAgent, payload, correlationId, priority) ==
    [type |-> type, sessionId |-> sessionId, fromAgent |-> fromAgent,
     toAgent |-> <<toAgent>>, payload |-> payload,
     correlationId |-> correlationId, priority |-> priority, ttl |-> Absent]

Phases == <<"analysis", "planning", "implementation", "review", "completion">>

NoWorkflow ==
    [status |-> "none", currentPhase |-> "none", userRequirement |-> "none",
     activeTasks |-> <<>>, completedTasks |-> <<>>, activeAgents |-> {},
     requirements |-> "none", messageHistory |-> <<>>, assignedIn |-> {}]

\* The workflow object of AgentOrchestrator.startSession.  messageHistory
\* holds the ids of the messages in workflow.messageHistory.  assignedIn is
\* history: for every sendMessage call of assignTaskToAgent, the type of the task
\* and workflow.currentPhase at the time of the call.
NewWorkflow(userRequirement) ==
    [status |-> "planning", currentPhase |-> Phases[1],
     userRequirement |-> userRequirement,
     activeTasks |-> <<>>, completedTasks |-> <<>>, activeAgents |-> {},
     requirements |-> userRequirement, messageHistory |-> <<>>, assignedIn |-> {}]

\* (errorCount / totalTasks) * 100, kept as the fraction of 100 it is: the
\* code's errorCount is 0 or 1, so the fraction is in lowest terms, and 0 over
\* any total is 0.
Percent(errorCount, totalTasks) ==
    IF errorCount = 0 THEN [num |-> 0, den |-> 1]
    ELSE [num |-> errorCount, den |-> totalTasks]

InitA2AVars ==
    /\ workflow = [s \in Sessions |-> NoWorkflow]
    /\ orchAgents = {}
    /\ svcAgents = <<>>
    /\ agent = [a \in Agents |->
                   [status |-> "idle", activeSession |-> <<>>, currentTasks |-> <<>>,
                    metrics |-> [tasksCompleted |-> 0, errorRate |-> Percent(0, 1),
                                 collaborations |-> 0]]]
    /\ starting = [s \in Sessions |-> <<>>]

(***************************************************************************)
(* The broker as the handlers use it: a handler makes several sendMessage  *)
(* calls, each on the broker state the one before left.                    *)
(***************************************************************************)
Broker ==
    [inflight |-> inflight, phistory |-> phistory, published |-> published,
     nextId |-> nextId]

\* SimpleMessageQueue.sendMessage on broker state b, with the subscriptions
\* subs.
Send(b, subs, message) ==
    LET enriched == SimpleEnrichedMessage(message, b.nextId, now)
        wire == JsonRoundTripA2A(enriched)
    IN [inflight |-> PublishAll(b.inflight, RecipientsOf(message), wire, subs),
        phistory |-> HistoryAll(b.phistory, RecipientsOf(message), enriched),
        published |-> PublishedAll(b.published, RecipientsOf(message), wire),
        nextId |-> b.nextId + 1]

\* uuidv4() of a task: the ids of tasks and of messages never collide.
NewId(b) == [b EXCEPT !.nextId = @ + 1]

(***************************************************************************)
(* AgentOrchestrator.  An operation of the orchestrator takes the workflow *)
(* of the session and the broker, and yields both as it leaves them.       *)
(***************************************************************************)
Out(wf, b) == [wf |-> wf, b |-> b]

TaskAssignment(sessionId, task) ==
    A2AMessage("task_assignment", sessionId, "orchestrator", task.assignedAgent,
               Payload(task, Absent, "none", "none", "none"),
               task.id, task.priority)

\* An assignment that records the analyst as assignee whoever it is sent to.
AssignTaskToAgentRecordingAnalyst(wf, b, sessionId, task) ==
    Out([wf EXCEPT !.activeTasks = Append(@, [task EXCEPT !.assignedAgent = Architectrix]),
                   !.activeAgents = @ \cup {task.assignedAgent},
                   !.assignedIn = @ \cup {[type |-> task.type, phase |-> wf.currentPhase]}],
        Send(b, listeners, TaskAssignment(sessionId, task)))

\* AgentOrchestrator.assignTaskToAgent
AssignTaskToAgent(wf, b, sessionId, task) ==
    Out([wf EXCEPT !.activeTasks = Append(@, task),
                   !.activeAgents = @ \cup {task.assignedAgent},
                   !.assignedIn = @ \cup {[type |-> task.type, phase |-> wf.currentPhase]}],
        Send(b, listeners, TaskAssignment(sessionId, task)))

\* An analysis task at the default priority.
AnalysisTaskDefaultPriority(taskId) ==
    Task(taskId, RequirementsAnalysis, Architectrix, "assigned", DefaultPriority)

\* AgentOrchestrator.initiateRequirementsAnalysis: the analysis task
AnalysisTask(taskId) ==
    Task(taskId, RequirementsAnalysis, Architectrix, "assigned", AnalysisPriority)

\* AgentOrchestrator.initiateRequirementsAnalysis: push the task, publish it.
InitiateRequirementsAnalysis(wf, b, sessionId) ==
    LET analysisTask == AnalysisTask(b.nextId)
    IN Out([wf EXCEPT !.activeTasks = Append(@, analysisTask),
                      !.activeAgents = @ \cup {Architectrix}],
           Send(NewId(b), listeners, TaskAssignment(sessionId, analysisTask)))

\* AgentOrchestrator.startSession: a new workflow replaces the one the session
\* may have, then the requirements analysis is initiated.
OrchStartSession(b, sessionId, userRequirement) ==
    InitiateRequirementsAnalysis(NewWorkflow(userRequirement), b, sessionId)

\* The text of a requirement or of analysed requirements, by the keywords it
\* contains: requirements.includes(keyword).
Keywords(text) ==
    CASE text = "docs" -> {"documentation"}
      [] text = "code" -> {"code"}
      [] OTHER -> {}

\* AgentOrchestrator.determineRequiredAgents, in the order of the Set, for
\* requirements in which includes() finds the keywords kw.
OrchRequiredAgents(kw) ==
    LET when(c, a) == IF c THEN <<a>> ELSE <<>>
    IN when(kw \cap {"frontend", "ui"} # {}, "frontend_developer")
       \o when(kw \cap {"backend", "api"} # {}, "backend_developer")
       \o when(kw \cap {"api", "endpoints"} # {}, "api_architect")
       \o when(kw \cap {"documentation", "docs"} # {}, "technical_writer")
       \o <<CodeConjurer>>

OrchDetermineRequiredAgents(requirements) == OrchRequiredAgents(Keywords(requirements))

\* AgentOrchestrator.createImplementationTasks: one task per agent, the ids
\* generated in that order starting at firstId.
CreateImplementationTasks(neededAgents, firstId) ==
    [i \in DOMAIN neededAgents |->
        Task(firstId + i - 1,
             SpecializationOf(neededAgents[i]) \o <<"implementation">>,
             neededAgents[i], "pending", ImplementationPriority)]

\* for (const task of tasks) await this.assignTaskToAgent(sessionId, task)
RECURSIVE AssignAll(_, _, _, _)
AssignAll(wf, b, sessionId, tasks) ==
    IF tasks = <<>> THEN Out(wf, b)
    ELSE LET o == AssignTaskToAgent(wf, b, sessionId, Head(tasks))
         IN AssignAll(o.wf, o.b, sessionId, Tail(tasks))

\* A planning that leaves the workflow in the phase after implementation.
InitiateImplementationPlanningToReview(wf, b, sessionId, requirements) ==
    LET neededAgents == OrchDetermineRequiredAgents(requirements)
        tasks == CreateImplementationTasks(neededAgents, b.nextId)
        o == AssignAll(wf, [b EXCEPT !.nextId = @ + Len(tasks)], sessionId, tasks)
    IN Out([o.wf EXCEPT !.currentPhase = Phases[4]], o.b)

\* AgentOrchestrator.initiateImplementationPlanning, for requirements that are
\* a text.
InitiateImplementationPlanning(wf, b, sessionId, requirements) ==
    LET neededAgents == OrchDetermineRequiredAgents(requirements)
        tasks == CreateImplementationTasks(neededAgents, b.nextId)
        o == AssignAll(wf, [b EXCEPT !.nextId = @ + Len(tasks)], sessionId, tasks)
    IN Out([o.wf EXCEPT !.currentPhase = Phases[3]], o.b)

\* workflow.activeTasks.findIndex(t => t.id === taskId), 0 for -1
FindIndex(tasks, taskId) ==
    IF \E i \in DOMAIN tasks : tasks[i].id = taskId
    THEN CHOOSE i \in DOMAIN tasks :
            /\ tasks[i].id = taskId
            /\ \A j \in 1 .. (i - 1) : tasks[j].id # taskId
    ELSE 0

\* splice(index, 1)
Splice(seq, index) == SubSeq(seq, 1, index - 1) \o SubSeq(seq, index + 1, Len(seq))

\* The requirements a result carries are a text ("text", "docs"), or an object
\* with the fields functional, nonFunctional, ... as ArchitectrixAgent
\* builds it ("obj"); a result that is null has none.
IsText(result) == result \in {"text", "docs"}

\* A completion that records the task as completed and leaves it active.
HandleTaskCompletionKeepingActive(wf, b, sessionId, message) ==
    LET taskIndex == FindIndex(wf.activeTasks, message.payload.taskId)
        task == [wf.activeTasks[taskIndex] EXCEPT !.status = "completed"]
    IN IF taskIndex = 0 THEN Out(wf, b)
       ELSE Out([wf EXCEPT !.completedTasks = Append(@, task)], b)

\* AgentOrchestrator.handleTaskCompletion.  result.requirements of a null
\* result throws, and so does requirements.includes of requirements that are
\* an object; handleAgentMessage catches, and the workflow stays as it was
\* when the exception was thrown.
HandleTaskCompletion(wf, b, sessionId, message) ==
    LET taskIndex == FindIndex(wf.activeTasks, message.payload.taskId)
        result == message.payload.result
        task == [wf.activeTasks[taskIndex] EXCEPT !.status = "completed"]
        moved == [wf EXCEPT !.completedTasks = Append(@, task),
                            !.activeTasks = Splice(@, taskIndex)]
        planning == [moved EXCEPT !.requirements = result,
                                  !.currentPhase = Phases[2]]
    IN IF taskIndex = 0 THEN Out(wf, b)
       ELSE IF task.type # RequirementsAnalysis THEN Out(moved, b)
       ELSE IF result = "null" THEN Out(moved, b)
       ELSE IF ~IsText(result) THEN Out(planning, b)
       ELSE InitiateImplementationPlanning(planning, b, sessionId, result)

\* AgentOrchestrator.handleTaskProgress
HandleTaskProgress(wf, b, sessionId, message) ==
    LET taskIndex == FindIndex(wf.activeTasks, message.payload.taskId)
    IN IF taskIndex = 0 THEN Out(wf, b)
       ELSE Out([wf EXCEPT !.activeTasks[taskIndex].status = message.payload.status],
                b)

\* AgentOrchestrator.reassignTask: the task object is changed in place and
\* assignTaskToAgent pushes it a second time.
ReassignTask(wf, b, sessionId, taskId, failedAgent) ==
    LET taskIndex == FindIndex(wf.activeTasks, taskId)
        replacementAgent ==
            FindReplacementAgent(SpecializationOf(failedAgent), failedAgent)
        task == [wf.activeTasks[taskIndex] EXCEPT
                    !.assignedAgent = replacementAgent,
                    !.status = "reassigned",
                    !.previousAgent = failedAgent]
    IN IF taskIndex = 0 \/ replacementAgent = NoAgent THEN Out(wf, b)
       ELSE AssignTaskToAgent(
                [wf EXCEPT !.activeTasks =
                    [i \in DOMAIN wf.activeTasks |->
                        IF wf.activeTasks[i].id = taskId THEN task
                        ELSE wf.activeTasks[i]]],
                b, sessionId, task)

\* An error handling that marks the task of any report as failed.
HandleAgentErrorMarkingFailed(wf, b, sessionId, agentId, message) ==
    LET taskIndex == FindIndex(wf.activeTasks, message.payload.taskId)
    IN IF taskIndex = 0 THEN Out(wf, b)
       ELSE Out([wf EXCEPT !.activeTasks[taskIndex].status = "failed"], b)

\* AgentOrchestrator.handleAgentError
HandleAgentError(wf, b, sessionId, agentId, message) ==
    IF message.payload.severity = "critical"
    THEN ReassignTask(wf, b, sessionId, message.payload.taskId, agentId)
    ELSE Out(wf, b)

\* The priorities of the messages the orchestrator forwards.
UrgentQuestionPriority == 8
InvitationPriority == 7

\* AgentOrchestrator.handleAgentQuestion
HandleAgentQuestion(wf, b, sessionId, agentId, message) ==
    Out(wf,
        Send(b, listeners,
             A2AMessage("user_clarification_needed", sessionId, "orchestrator", "user",
                        [Payload(NoTask, Absent, "none", "none", "none") EXCEPT
                            !.urgency = message.payload.urgency,
                            !.requestingAgent = agentId],
                        Absent,
                        IF message.payload.urgency = "high" THEN UrgentQuestionPriority
                        ELSE DefaultPriority)))

\* AgentOrchestrator.handleCollaborationRequest
HandleCollaborationRequest(wf, b, sessionId, agentId, message) ==
    Out(wf,
        Send(b, listeners,
             A2AMessage("collaboration_invitation", sessionId, agentId,
                        message.payload.targetAgent,
                        [Payload(NoTask, Absent, "none", "none", "none") EXCEPT
                            !.requestingAgent = agentId],
                        Absent, InvitationPriority)))

\* AgentOrchestrator.handleAgentMessage
HandleAgentMessage(wf, b, sessionId, agentId, message) ==
    LET pushed == [wf EXCEPT !.messageHistory = Append(@, message.id)]
    IN IF wf.status = "none" THEN Out(wf, b)
       ELSE CASE message.type = "task_completion" ->
                     HandleTaskCompletion(pushed, b, sessionId, message)
              [] message.type = "task_progress" ->
                     HandleTaskProgress(pushed, b, sessionId, message)
              [] message.type = "agent_question" ->
                     HandleAgentQuestion(pushed, b, sessionId, agentId, message)
              [] message.type = "error_report" ->
                     HandleAgentError(pushed, b, sessionId, agentId, message)
              [] message.type = "collaboration_request" ->
                     HandleCollaborationRequest(pushed, b, sessionId, agentId, message)
              [] OTHER -> Out(pushed, b)

\* AgentOrchestrator.stopWorkflow
StopWorkflow(wf) == IF wf.status = "none" THEN wf ELSE [wf EXCEPT !.status = "stopped"]

\* AgentOrchestrator.getWorkflowStatus: the progress it reports
GetWorkflowStatus(wf) ==
    [status |-> wf.status, currentPhase |-> wf.currentPhase,
     progress |-> [total |-> Len(wf.activeTasks) + Len(wf.completedTasks),
                   completed |-> Len(wf.completedTasks),
                   active |-> Len(wf.activeTasks)],
     activeAgents |-> wf.activeAgents]

(***************************************************************************)
(* BaseAgent: the runtime of agent a, one instance for all the sessions.   *)
(* An operation takes the runtime and the broker and yields both.          *)
(***************************************************************************)
OutA(ag, b) == [ag |-> ag, b |-> b]

ToOrchestrator(type, sessionId, a, payload, correlationId) ==
    A2AMessage(type, sessionId, a, "orchestrator", payload, correlationId, Absent)

\* BaseAgent.updateMetrics, without the average response time.
UpdateMetrics(ag, success) ==
    LET tasksCompleted == ag.metrics.tasksCompleted + (IF success THEN 1 ELSE 0)
        totalTasks == tasksCompleted + (IF success THEN 0 ELSE 1)
        errorCount == totalTasks - tasksCompleted
    IN [ag EXCEPT !.metrics.tasksCompleted = tasksCompleted,
                  !.metrics.errorRate = Percent(errorCount, totalTasks)]

\* An error report that is always of severity high.
ReportErrorHigh(b, sessionId, a, severity, taskId) ==
    Send(b, listeners,
         ToOrchestrator("error_report", sessionId, a,
                        Payload(NoTask, taskId, "none", "high", "none"), Absent))

\* BaseAgent.reportError: the message; its updateMetrics(0, false) is applied
\* to the runtime where reportError is called.
ReportError(b, sessionId, a, severity, taskId) ==
    Send(b, listeners,
         ToOrchestrator("error_report", sessionId, a,
                        Payload(NoTask, taskId, "none", severity, "none"), Absent))

\* BaseAgent.reportProgress
ReportProgress(b, sessionId, a, taskId, status) ==
    Send(b, listeners,
         ToOrchestrator("task_progress", sessionId, a,
                        Payload(NoTask, taskId, "none", "none", status), Absent))

\* this.currentTasks.set(task.id, task): a key the Map has keeps its place
MapSet(tasks, task) ==
    IF FindIndex(tasks, task.id) = 0 THEN Append(tasks, task)
    ELSE [tasks EXCEPT ![FindIndex(tasks, task.id)] = task]

\* A completion that leaves the task in the map.
CompleteTaskKeepingTask(ag, b, sessionId, a, taskId) ==
    LET taskIndex == FindIndex(ag.currentTasks, taskId)
    IN IF taskIndex = 0 THEN OutA(ag, b)
       ELSE OutA(UpdateMetrics(ag, TRUE),
                 Send(b, listeners,
                      ToOrchestrator("task_completion", sessionId, a,
                                     Payload(NoTask, taskId, "obj", "none", "none"),
                                     taskId)))

\* BaseAgent.completeTask
CompleteTask(ag, b, sessionId, a, taskId) ==
    LET taskIndex == FindIndex(ag.currentTasks, taskId)
        rest == Splice(ag.currentTasks, taskIndex)
    IN IF taskIndex = 0 THEN OutA(ag, b)
       ELSE OutA([UpdateMetrics(ag, TRUE) EXCEPT
                     !.currentTasks = rest,
                     !.status = IF rest # <<>> THEN "working" ELSE "idle"],
                 Send(b, listeners,
                      ToOrchestrator("task_completion", sessionId, a,
                                     Payload(NoTask, taskId, "obj", "none", "none"),
                                     taskId)))

\* A handler that drops the task when executeTask throws.
HandleTaskAssignmentDroppingFailed(ag, b, a, message) ==
    LET task == message.payload.task
        started == [ag EXCEPT
                       !.currentTasks = MapSet(@, [task EXCEPT !.status = "in_progress"]),
                       !.status = "working"]
        b1 == ReportProgress(b, message.sessionId, a, task.id, "started")
    IN IF ~CanHandleTask(a, task)
       THEN OutA(UpdateMetrics(ag, FALSE),
                 ReportError(b, message.sessionId, a, "low", Absent))
       ELSE IF task.type \in SupportedTaskTypes(a)
       THEN CompleteTask(started, b1, message.sessionId, a, task.id)
       ELSE OutA(UpdateMetrics(ag, FALSE),
                 ReportError(b1, message.sessionId, a, "high", task.id))

\* BaseAgent.handleTaskAssignment; executeTask throws for a task type its
\* switch does not know, and returns a result otherwise.  The executors the
\* modelled task types reach (designSystemArchitecture, reviewCode) return
\* their result at once, without reports of their own.
HandleTaskAssignment(ag, b, a, message) ==
    LET task == message.payload.task
        started == [ag EXCEPT
                       !.currentTasks = MapSet(@, [task EXCEPT !.status = "in_progress"]),
                       !.status = "working"]
        b1 == ReportProgress(b, message.sessionId, a, task.id, "started")
    IN IF ~CanHandleTask(a, task)
       THEN OutA(UpdateMetrics(ag, FALSE),
                 ReportError(b, message.sessionId, a, "low", Absent))
       ELSE IF task.type \in SupportedTaskTypes(a)
       THEN CompleteTask(started, b1, message.sessionId, a, task.id)
       ELSE OutA(UpdateMetrics(started, FALSE),
                 ReportError(b1, message.sessionId, a, "high", task.id))

\* BaseAgent.handleMessage
\* The window of memory.conversations.
MemoryLimit == 50

\* A memory that drops the newest entry once it is full.
UpdateMemoryKeepingOldest(conversations, message, timestamp) ==
    LET pushed == Append(conversations,
                         [timestamp |-> timestamp, type |-> message.type,
                          fromAgent |-> message.fromAgent,
                          content |-> message.payload])
    IN IF Len(pushed) > MemoryLimit THEN SubSeq(pushed, 1, MemoryLimit) ELSE pushed

\* BaseAgent.updateMemory, of memory.conversations: push, then slice(-50) once
\* the list is longer than 50.  (memory.context is written and never read.)
UpdateMemory(conversations, message, timestamp) ==
    LET pushed == Append(conversations,
                         [timestamp |-> timestamp, type |-> message.type,
                          fromAgent |-> message.fromAgent,
                          content |-> message.payload])
    IN IF Len(pushed) > MemoryLimit
       THEN SubSeq(pushed, Len(pushed) - MemoryLimit + 1, Len(pushed))
       ELSE pushed

\* this.currentTasks.size < 3 of shouldAcceptCollaboration
MaxTasksToCollaborate == 3

\* BaseAgent.handleCollaborationInvitation
HandleCollaborationInvitation(ag, b, a, message) ==
    LET shouldAccept == /\ ag.status # "overloaded"
                        /\ Len(ag.currentTasks) < MaxTasksToCollaborate
    IN IF shouldAccept
       THEN OutA([ag EXCEPT !.metrics.collaborations = @ + 1],
                 Send(b, listeners,
                      A2AMessage("collaboration_acceptance", message.sessionId, a,
                                 message.payload.requestingAgent,
                                 Payload(NoTask, Absent, "none", "none", "none"),
                                 Absent, Absent)))
       ELSE OutA(ag, b)

\* BaseAgent.handleMessage.  handleAgentResponse is not defined anywhere: the
\* call throws and the catch reports it.  A user_clarification resumes the
\* tasks that wait for one, a status no code gives a task.
HandleMessage(ag, b, a, message) ==
    CASE message.type = "task_assignment" -> HandleTaskAssignment(ag, b, a, message)
      [] message.type = "collaboration_invitation" ->
             HandleCollaborationInvitation(ag, b, a, message)
      [] message.type = "agent_response" ->
             OutA(ag, ReportError(b, message.sessionId, a, "medium", Absent))
      [] OTHER -> OutA(ag, b)

\* A shutdown that clears the tasks without a report.
ShutdownWithoutReports(ag, b, a) ==
    OutA([ag EXCEPT !.currentTasks = <<>>, !.status = "offline"], b)

\* BaseAgent.shutdown: an error report for every task in progress, to the
\* session the runtime was last initialised for.
RECURSIVE ReportShutdown(_, _, _, _)
ReportShutdown(b, sessionId, a, tasks) ==
    IF tasks = <<>> THEN b
    ELSE ReportShutdown(
             IF Head(tasks).status = "in_progress"
             THEN ReportError(b, sessionId, a, "medium", Head(tasks).id)
             ELSE b,
             sessionId, a, Tail(tasks))

Shutdown(ag, b, a) ==
    LET reporting == \E i \in DOMAIN ag.currentTasks :
                         ag.currentTasks[i].status = "in_progress"
    IN OutA([(IF reporting THEN UpdateMetrics(ag, FALSE) ELSE ag) EXCEPT
                !.currentTasks = <<>>, !.status = "offline"],
            ReportShutdown(b, ag.activeSession, a, ag.currentTasks))

(***************************************************************************)
(* A2AService.                                                             *)
(***************************************************************************)
\* A2AService.determineRequiredAgents: of the agents the requirement names,
\* those that have a runtime; kw are the keywords includes() finds in the
\* requirement put in lower case.
SvcRequiredAgents(kw) ==
    LET when(c, a) == IF c /\ a \in Agents THEN <<a>> ELSE <<>>
    IN when(TRUE, Architectrix)
       \o when(kw \cap {"code", "implement"} # {}, CodeConjurer)
       \o when(kw \cap {"frontend", "ui"} # {}, "frontend_developer")
       \o when(kw \cap {"backend", "api"} # {}, "backend_developer")
       \o when(kw \cap {"api", "endpoint"} # {}, "api_architect")
       \o when(kw \cap {"documentation", "docs"} # {}, "technical_writer")

\* The requirement texts of the sessions are written in lower case, which
\* toLowerCase leaves as they are.
SvcDetermineRequiredAgents(userRequirement) == SvcRequiredAgents(Keywords(userRequirement))

UserRequirements == {"text", "code"}

\* The calls made so far, counted on the PUBLISH commands they made.
StartsMade ==
    Cardinality({i \in DOMAIN published :
                    /\ published[i].msg.type = "task_assignment"
                    /\ published[i].msg.payload.task.type = RequirementsAnalysis})

UserMsgsSent ==
    Cardinality({i \in DOMAIN published : published[i].msg.fromAgent = "user"})

\* The broker state the handlers left.
SetBroker(b) ==
    /\ inflight' = b.inflight
    /\ phistory' = b.phistory
    /\ published' = b.published
    /\ nextId' = b.nextId

\* A2AService.startSession, up to the return of the orchestrator's
\* startSession; the agents are activated after it (SvcActivateAgent).
SvcStartSession(sessionId, userRequirement) ==
    /\ mode = "pubsub"
    /\ starting[sessionId] = <<>>
    /\ StartsMade < MaxStarts
    /\ nextId + 1 <= MaxIds
    /\ LET o == OrchStartSession(Broker, sessionId, userRequirement)
       IN /\ workflow' = [workflow EXCEPT ![sessionId] = o.wf]
          /\ SetBroker(o.b)
          /\ starting' = [starting EXCEPT ![sessionId] =
                             SvcDetermineRequiredAgents(o.wf.userRequirement)]
    /\ UNCHANGED <<can, required, memVars, loopVars, outcome, mode, now, mqVars, listeners, pev, orchAgents, svcAgents, agent>>

\* One turn of the loop of A2AService.activateAgentsForSession:
\* agent.initialize (subscribe, then agent_status to the orchestrator),
\* orchestrator.registerAgent (the orchestrator subscribes to the agent's
\* channel), this.activeAgents.set.
SvcActivateAgent(sessionId) ==
    /\ starting[sessionId] # <<>>
    /\ nextId <= MaxIds
    /\ LET a == Head(starting[sessionId])
           ch == Channel(sessionId, a)
           subs == [listeners EXCEPT ![ch] = Append(@, "agent")]
       IN /\ agent' = [agent EXCEPT ![a].activeSession = sessionId,
                                    ![a].status = "active"]
          /\ SetBroker(Send(Broker, subs,
                            ToOrchestrator("agent_status", sessionId, a,
                                           Payload(NoTask, Absent, "none", "none",
                                                   "initialized"),
                                           Absent)))
          /\ orchAgents' = orchAgents \cup {Key(sessionId, a)}
          /\ listeners' = [subs EXCEPT ![ch] = Append(@, "orch")]
          /\ svcAgents' = IF \E i \in DOMAIN svcAgents : svcAgents[i] = Key(sessionId, a)
                          THEN svcAgents
                          ELSE Append(svcAgents, Key(sessionId, a))
    /\ starting' = [starting EXCEPT ![sessionId] = Tail(@)]
    /\ UNCHANGED <<can, required, memVars, loopVars, outcome, mode, now, mqVars, pev, workflow>>


(***************************************************************************)
(* Specification of the brokers: the deployment uses one of the two.       *)
(***************************************************************************)
InitState ==
    /\ mode \in {"durable", "pubsub"}
    /\ now = 0
    /\ nextId = 1
    /\ stream = [r \in Recipients |-> <<>>]
    /\ lastRead = [r \in Recipients |-> 0]
    /\ pel = [r \in Recipients |-> {}]
    /\ subscribed = [r \in Recipients |-> FALSE]
    /\ timers = {}
    /\ dlq = <<>>
    /\ mqlog = <<>>
    /\ ev = [r \in Recipients |-> <<>>]
    /\ listeners = [ch \in Channels |-> <<>>]
    /\ inflight = <<>>
    /\ phistory = <<>>
    /\ pev = <<>>
    /\ published = <<>>
    /\ InitA2AVars
    /\ outcome = Returned(<<>>)
    /\ memory = [a \in Agents |-> <<>>]
    /\ arrived = [a \in Agents |-> <<>>]
    /\ consumer = [r \in Recipients |-> "reading"]
    /\ running = [r \in Recipients |-> <<>>]
    /\ messageHandlers = <<>>

InitMQ ==
    /\ InitState
    /\ can = NoCall
    /\ required = NoSelection

NextMQ ==
    \/ \E message \in MQRequests : MQSendMessage(message)
    \/ \E r \in Recipients : MQSubscribeToMessages(r)
    \/ \E r \in Recipients : MQConsumeExpired(r)
    \/ \E r \in Recipients : MQConsumeOk(r)
    \/ \E r \in Recipients : MQConsumeFail(r)
    \/ \E t \in timers : MQRetryTimer(t)
    \/ \E message \in PSRequests : PSSendMessage(message)
    \/ \E r \in Recipients : PSSubscribeToMessages(r)
    \/ PSCallbackExpired
    \/ PSCallbackHandler
    \/ Tick

SpecMQ == InitMQ /\ [][NextMQ]_vars

\* The ids of the tasks of a workflow, which the caller of startSession and of
\* getSessionStatus is told.
TaskIdsOf(wf) ==
    {wf.activeTasks[i].id : i \in DOMAIN wf.activeTasks}
        \cup {wf.completedTasks[i].id : i \in DOMAIN wf.completedTasks}

UserResults == {"text", "docs", "obj", "nan"}

\* The messages a caller of sendMessageToAgent sends about task taskId.
UserMessages(taskId) ==
    {[type |-> "task_completion",
      payload |-> Payload(NoTask, taskId, r, "none", "none")] : r \in UserResults}
    \cup {[type |-> "error_report",
           payload |-> Payload(NoTask, taskId, "none", "critical", "none")],
          [type |-> "error_report",
           payload |-> Payload(NoTask, taskId, "none", "high", "none")],
          [type |-> "error_report",
           payload |-> Payload(NoTask, Absent, "none", "critical", "none")],
          [type |-> "task_progress",
           payload |-> Payload(NoTask, taskId, "none", "none", "started")],
          [type |-> "agent_question",
           payload |-> [Payload(NoTask, Absent, "none", "none", "none") EXCEPT
                           !.urgency = "high"]],
          [type |-> "collaboration_request",
           payload |-> [Payload(NoTask, Absent, "none", "none", "none") EXCEPT
                           !.targetAgent = CodeConjurer]]}

\* A2AService.sendMessageToAgent, with a message about a task of the session
SvcSendMessageToAgent(sessionId, agentId) ==
    /\ mode = "pubsub"
    /\ UserMsgsSent < MaxUserMsgs
    /\ nextId <= MaxIds
    /\ \E taskId \in TaskIdsOf(workflow[sessionId]) :
           \E message \in UserMessages(taskId) :
               SetBroker(Send(Broker, listeners,
                              A2AMessage(message.type, sessionId, "user", agentId,
                                         message.payload, Absent, DefaultPriority)))
    /\ outcome' = Returned(<<nextId>>)
    /\ UNCHANGED <<can, required, memVars, loopVars, mode, now, mqVars, listeners, pev, a2aVars>>

\* The task assignments a caller has sent.
UserAssignmentsSent ==
    Cardinality({i \in DOMAIN published :
                    /\ published[i].msg.fromAgent = "user"
                    /\ published[i].msg.type = "task_assignment"})

\* The types of the tasks a caller assigns: one executeTask of code_conjurer
\* knows (reviewCode), one executeTask of architectrix knows
\* (designSystemArchitecture), one that neither knows.
UserTaskTypes == { <<"code", "review">>, <<"system", "architecture">>, <<"documentation">> }

\* The id the caller gives its next task; it is no id the service generated.
UserTaskId == 100 + UserAssignmentsSent

\* A2AService.sendMessageToAgent with a task_assignment for a task of the
\* caller's own.
SvcSendTaskAssignment(sessionId, agentId) ==
    /\ mode = "pubsub"
    /\ UserAssignmentsSent < MaxAssignments
    /\ nextId <= MaxIds
    /\ \E type \in UserTaskTypes :
           SetBroker(Send(Broker, listeners,
                          A2AMessage("task_assignment", sessionId, "user", agentId,
                                     Payload(Task(UserTaskId, type, agentId, "pending",
                                                  DefaultPriority),
                                             Absent, "none", "none", "none"),
                                     Absent, DefaultPriority)))
    /\ outcome' = Returned(<<nextId>>)
    /\ UNCHANGED <<can, required, memVars, loopVars, mode, now, mqVars, listeners, pev, a2aVars>>

\* message of a caller that is about no task
UserInput == [type |-> "user_input",
              payload |-> Payload(NoTask, Absent, "none", "none", "none")]

\* The loop of A2AService.broadcastMessage from the i-th agent of
\* sessionAgents on: sendMessageToAgent for each, the id pushed when it
\* returns, the failure logged when it throws.  The sends at the positions
\* failing throw (redis.publish rejects): the id was generated, nothing was
\* published.
RECURSIVE BroadcastFrom(_, _, _, _, _, _)
BroadcastFrom(b, out, sessionId, sessionAgents, failing, i) ==
    IF i > Len(sessionAgents) THEN [b |-> b, out |-> out]
    ELSE LET agentId == sessionAgents[i]
         IN IF i \in failing
            THEN BroadcastFrom(NewId(b), Outcome(out.ids, Append(out.logged, agentId)),
                               sessionId, sessionAgents, failing, i + 1)
            ELSE BroadcastFrom(
                     Send(b, listeners,
                          A2AMessage(UserInput.type, sessionId, "user", agentId,
                                     UserInput.payload, Absent, DefaultPriority)),
                     Outcome(Append(out.ids, b.nextId), out.logged),
                     sessionId, sessionAgents, failing, i + 1)

\* A2AService.broadcastMessage: the agents of the keys that start with the
\* session id, in the order of the Map.
SvcBroadcastMessage(sessionId) ==
    /\ mode = "pubsub"
    /\ LET keys == SelectSeq(svcAgents, LAMBDA k : StartsWith(k, sessionId))
           sessionAgents == [i \in DOMAIN keys |-> KeyAgent(keys[i])]
       IN /\ nextId + Len(sessionAgents) <= MaxIds + 1
          /\ \E failing \in SUBSET DOMAIN sessionAgents :
                 LET o == BroadcastFrom(Broker, Returned(<<>>), sessionId,
                                        sessionAgents, failing, 1)
                 IN /\ SetBroker(o.b)
                    /\ outcome' = o.out
    /\ UNCHANGED <<can, required, memVars, loopVars, mode, now, mqVars, listeners, pev, a2aVars>>

\* The loop of A2AService.stopSession over the keys that start with the
\* session id: agent.shutdown() of each.
RECURSIVE ShutdownAll(_, _, _)
ShutdownAll(ags, b, keys) ==
    IF keys = <<>> THEN [ags |-> ags, b |-> b]
    ELSE LET a == KeyAgent(Head(keys))
             o == Shutdown(ags[a], b, a)
         IN ShutdownAll([ags EXCEPT ![a] = o.ag], o.b, Tail(keys))

\* A2AService.stopSession: orchestrator.stopWorkflow, then the agents.
SvcStopSession(sessionId) ==
    /\ mode = "pubsub"
    /\ LET sessionAgentKeys == SelectSeq(svcAgents, LAMBDA k : StartsWith(k, sessionId))
           o == ShutdownAll(agent, Broker, sessionAgentKeys)
       IN /\ o.b.nextId <= MaxIds + 1
          /\ workflow' = [workflow EXCEPT ![sessionId] = StopWorkflow(@)]
          /\ orchAgents' = orchAgents \
                 {Key(sessionId, a) : a \in workflow[sessionId].activeAgents}
          /\ agent' = o.ags
          /\ SetBroker(o.b)
          /\ svcAgents' = SelectSeq(svcAgents, LAMBDA k : ~StartsWith(k, sessionId))
    /\ UNCHANGED <<can, required, memVars, loopVars, outcome, mode, now, mqVars, listeners, pev, starting>>

\* The callback of subscribeToMessages with the handler of registerAgent:
\* (message) => this.handleAgentMessage(sessionId, agentId, message).
OrchCallback ==
    /\ inflight # <<>>
    /\ Head(inflight).who = "orch"
    /\ LET cb == Head(inflight)
           sessionId == cb.ch[1]
           b == [Broker EXCEPT !.inflight = Tail(inflight)]
           o == IF Expired(cb.msg, now) THEN Out(workflow[sessionId], b)
                ELSE HandleAgentMessage(workflow[sessionId], b, sessionId,
                                        cb.ch[2], cb.msg)
       IN /\ o.b.nextId <= MaxIds + 1
          /\ workflow' = [workflow EXCEPT ![sessionId] = o.wf]
          /\ SetBroker(o.b)
    /\ UNCHANGED <<can, required, memVars, loopVars, outcome, mode, now, mqVars, listeners, pev, orchAgents, svcAgents, agent,
                   starting>>

\* The callback of subscribeToMessages with the handler of BaseAgent.initialize:
\* (message) => this.handleMessage(message).
AgentCallback ==
    /\ inflight # <<>>
    /\ Head(inflight).who = "agent"
    /\ LET cb == Head(inflight)
           a == cb.ch[2]
           b == [Broker EXCEPT !.inflight = Tail(inflight)]
           o == IF Expired(cb.msg, now) THEN OutA(agent[a], b)
                ELSE HandleMessage(agent[a], b, a, cb.msg)
       IN /\ o.b.nextId <= MaxIds + 1
          /\ agent' = [agent EXCEPT ![a] = o.ag]
          /\ SetBroker(o.b)
          /\ IF Expired(cb.msg, now) THEN UNCHANGED memVars
             ELSE /\ memory' = [memory EXCEPT ![a] = UpdateMemory(@, cb.msg, now)]
                  /\ arrived' = [arrived EXCEPT ![a] = Append(@, cb.msg)]
    /\ UNCHANGED <<can, required, outcome, loopVars, mode, now, mqVars, listeners, pev, workflow, orchAgents, svcAgents,
                   starting>>

(***************************************************************************)
(* Specification of the A2A service on the pub/sub broker, which is the    *)
(* broker A2AService, AgentOrchestrator and BaseAgent require.             *)
(***************************************************************************)
InitA2A ==
    /\ InitMQ
    /\ mode = "pubsub"

NextA2A ==
    \/ \E s \in Sessions : \E r \in UserRequirements : SvcStartSession(s, r)
    \/ \E s \in Sessions : SvcActivateAgent(s)
    \/ \E s \in Sessions : \E a \in Agents : SvcSendMessageToAgent(s, a)
    \/ \E s \in Sessions : SvcStopSession(s)
    \/ OrchCallback
    \/ AgentCallback

SpecA2A == InitA2A /\ [][NextA2A]_vars

(***************************************************************************)
(* Specification of canHandleTask: the function is called on an agent with *)
(* any list of the capability tags below, and any of the specializations,  *)
(* for a task of any of the types.                                         *)
(***************************************************************************)
CapabilityTags ==
    { <<"backend", "development">>, <<"frontend">>, <<"code", "review">>,
      <<"documentation">> }

Specializations ==
    { <<"backend", "development">>, <<"code", "generation">>, <<"documentation">> }

TaskTypes ==
    { <<"frontend", "implementation">>, <<"backend", "development", "implementation">>,
      <<"code", "generation">>, <<"documentation">>, <<"testing">> }

InitCanHandle ==
    /\ InitState
    /\ mode = "pubsub"
    /\ can \in [capabilities : SUBSET CapabilityTags, specialization : Specializations,
                 type : TaskTypes, result : {{}}]
    /\ required = NoSelection

\* agent.canHandleTask(task)
CanHandleTaskCall ==
    /\ can.result = {}
    /\ can' = [can EXCEPT !.result =
                   {CanHandle(can.capabilities, can.specialization, [type |-> can.type])}]
    /\ UNCHANGED <<required, memVars, loopVars, outcome, mode, now, nextId, mqVars, psVars, a2aVars>>

SpecCanHandle == InitCanHandle /\ [][CanHandleTaskCall]_vars

(***************************************************************************)
(* Specification of broadcasts: sessions are started and messages are      *)
(* broadcast to their agents, some of the sends failing.                   *)
(***************************************************************************)
NextBroadcast ==
    \/ \E s \in Sessions : \E r \in UserRequirements : SvcStartSession(s, r)
    \/ \E s \in Sessions : SvcActivateAgent(s)
    \/ \E s \in Sessions : SvcBroadcastMessage(s)
    \/ OrchCallback
    \/ AgentCallback

SpecBroadcast == InitA2A /\ [][NextBroadcast]_vars

(***************************************************************************)
(* Specification of the agent runtimes: one session is started, started    *)
(* again and stopped, and a caller assigns tasks of its own to the agents. *)
(***************************************************************************)
NextRuntime ==
    \/ \E r \in UserRequirements : SvcStartSession(Session, r)
    \/ SvcActivateAgent(Session)
    \/ \E a \in Agents : SvcSendTaskAssignment(Session, a)
    \/ SvcStopSession(Session)
    \/ OrchCallback
    \/ AgentCallback

SpecRuntime == InitA2A /\ [][NextRuntime]_vars

(***************************************************************************)
(* Specification of the conversation memory: the runtimes are handed       *)
(* messages of types handleMessage has no case for (it logs a warning), as *)
(* a caller of sendMessageToAgent sends them, one after the other.         *)
(***************************************************************************)
MaxArrivals == 52   \* handleMessage calls per runtime in one behaviour

InboundTypes == <<"task_progress", "task_completion", "error_report">>

\* The k-th message a runtime is handed.
InboundMessage(a, k) ==
    SimpleEnrichedMessage(
        A2AMessage(InboundTypes[(k % Len(InboundTypes)) + 1], Session, "user", a,
                   Payload(NoTask, k, "none", "none", "none"), Absent, Absent),
        k, now)

\* BaseAgent.handleMessage, default case of the switch
RuntimeHandleMessage(a) ==
    /\ Len(arrived[a]) < MaxArrivals
    /\ LET message == InboundMessage(a, Len(arrived[a]) + 1)
       IN /\ memory' = [memory EXCEPT ![a] = UpdateMemory(@, message, now)]
          /\ arrived' = [arrived EXCEPT ![a] = Append(@, message)]
    /\ UNCHANGED <<can, required, outcome, loopVars, mode, now, nextId, mqVars, psVars, a2aVars>>

NextMemory == \E a \in Agents : RuntimeHandleMessage(a)

SpecMemory == InitA2A /\ [][NextMemory]_vars

(***************************************************************************)
(* Specification of the defaults of sendMessage: either broker publishes   *)
(* messages for which the caller supplies a priority, a ttl, both or       *)
(* neither.                                                                *)
(***************************************************************************)
SuppliedPriorities == {Absent} \cup (0 .. 10)

SuppliedTtls == {Absent, 0, 1, DefaultTtl}

SuppliedRequests ==
    { [MQRequest(<<Architectrix>>, "obj", Absent, t) EXCEPT !.priority = p] :
          p \in SuppliedPriorities, t \in SuppliedTtls }

NextDefaults ==
    \/ \E message \in SuppliedRequests : MQSendMessage(message)
    \/ \E message \in SuppliedRequests : PSSendMessage(message)

SpecDefaults == InitMQ /\ [][NextDefaults]_vars

(***************************************************************************)
(* Specification of the agent selection: both determineRequiredAgents are  *)
(* applied to the same requirement text.  A text is given by the keywords  *)
(* it contains in lower case (found) and those it contains in another      *)
(* case only (shouted): includes() is case sensitive.  A text that         *)
(* contains "endpoints" contains "endpoint".                               *)
(***************************************************************************)
SelectionKeywords ==
    {"code", "implement", "frontend", "ui", "backend", "api", "endpoint", "endpoints",
     "documentation", "docs"}

RequirementTexts ==
    {text \in [found : SUBSET SelectionKeywords, shouted : SUBSET SelectionKeywords] :
        /\ text.found \cap text.shouted = {}
        /\ "endpoints" \in text.found => "endpoint" \in text.found
        /\ "endpoints" \in text.shouted => "endpoint" \in text.found \cup text.shouted}

\* String.prototype.toLowerCase
ToLowerCase(text) == [found |-> text.found \cup text.shouted, shouted |-> {}]

InitSelection ==
    /\ InitState
    /\ mode = "pubsub"
    /\ can = NoCall
    /\ required \in [text : RequirementTexts, orchestrator : {{}}, service : {{}}]

\* agentOrchestrator.determineRequiredAgents(text, architecture) and
\* a2aService.determineRequiredAgents({userRequirement: text})
DetermineRequiredAgentsCall ==
    /\ required.orchestrator = {}
    /\ LET needed == OrchRequiredAgents(required.text.found)
           activated == SvcRequiredAgents(ToLowerCase(required.text).found)
       IN required' = [required EXCEPT
                          !.orchestrator = {{needed[i] : i \in DOMAIN needed}},
                          !.service = {{activated[i] : i \in DOMAIN activated}}]
    /\ UNCHANGED <<can, memVars, loopVars, outcome, mode, now, nextId, mqVars, psVars, a2aVars>>

SpecSelection == InitSelection /\ [][DetermineRequiredAgentsCall]_vars

(***************************************************************************)
(* Specification of the handler invocations: a handler is a span from its  *)
(* call to the settling of the promise it returns.  The consumer loop of   *)
(* MessageQueue awaits the handler before it acknowledges and reads again; *)
(* the callback of SimpleMessageQueue calls the handler and returns.  The  *)
(* clock stands still, so no message is older than its ttl.                *)
(***************************************************************************)
\* running[r] without its i-th invocation
Settled(run, i) == SubSeq(run, 1, i - 1) \o SubSeq(run, i + 1, Len(run))

\* consumeMessages: XREADGROUP hands over the next entry, the message is not
\* expired, handler(messageData) is called.
MQHandlerCalled(r) ==
    /\ subscribed[r]
    /\ consumer[r] = "reading"
    /\ lastRead[r] < Len(stream[r])
    /\ LET e == lastRead[r] + 1
           m == stream[r][e].msg
       IN /\ ~Expired(m, now)
          /\ lastRead' = [lastRead EXCEPT ![r] = e]
          /\ running' = [running EXCEPT ![r] = Append(@, m.id)]
    /\ consumer' = [consumer EXCEPT ![r] = "handling"]
    /\ UNCHANGED <<can, required, memVars, messageHandlers, outcome, mode, now, nextId,
                   stream, pel, subscribed, timers, dlq, mqlog, ev, psVars, a2aVars>>

\* consumeMessages: the awaited handler returned; XACK, and the loop reads again.
MQHandlerReturned(r) ==
    /\ consumer[r] = "handling"
    /\ ev' = [ev EXCEPT ![r] = Append(@, Event("ok", stream[r][lastRead[r]].msg))]
    /\ running' = [running EXCEPT ![r] = Settled(@, Len(@))]
    /\ consumer' = [consumer EXCEPT ![r] = "reading"]
    /\ UNCHANGED <<can, required, memVars, messageHandlers, outcome, mode, now, nextId,
                   stream, lastRead, pel, subscribed, timers, dlq, mqlog, psVars, a2aVars>>

\* consumeMessages: the awaited handler threw; retryMessage, and the loop reads
\* again.
MQHandlerThrew(r) ==
    /\ consumer[r] = "handling"
    /\ LET e == lastRead[r]
           m == stream[r][e].msg
           retried == RetriedMessageData(m)
       IN /\ ev' = [ev EXCEPT ![r] = Append(@, Event("fail", m))]
          /\ IF WillRetry(retried)
             THEN /\ timers' = timers \cup
                        {[r |-> r, entry |-> e, msg |-> retried,
                          at |-> now + BackoffDelay(retried.retryCount)]}
                  /\ pel' = [pel EXCEPT ![r] = @ \cup {e}]
                  /\ dlq' = dlq
             ELSE /\ timers' = timers
                  /\ pel' = pel
                  /\ dlq' = Append(dlq, [msg |-> JsonRoundTrip(retried),
                                         src |-> <<r, e>>])
    /\ running' = [running EXCEPT ![r] = Settled(@, Len(@))]
    /\ consumer' = [consumer EXCEPT ![r] = "reading"]
    /\ UNCHANGED <<can, required, memVars, messageHandlers, outcome, mode, now, nextId,
                   stream, lastRead, subscribed, mqlog, psVars, a2aVars>>

\* The callback of SimpleMessageQueue.subscribeToMessages: the message is not
\* expired, handler(messageData) is called and the callback returns; the
\* promise of the handler is not awaited.
PSHandlerCalled ==
    /\ inflight # <<>>
    /\ Head(inflight).who = "client"
    /\ ~Expired(Head(inflight).msg, now)
    /\ inflight' = Tail(inflight)
    /\ pev' = Append(pev, [kind |-> "handed", id |-> Head(inflight).msg.id,
                           r |-> Head(inflight).ch[2],
                           old |-> now - Head(inflight).msg.timestamp
                                     > Head(inflight).msg.ttl])
    /\ running' = [running EXCEPT ![Head(inflight).ch[2]] =
                      Append(@, Head(inflight).msg.id)]
    /\ UNCHANGED <<can, required, memVars, consumer, messageHandlers, outcome, mode, now,
                   nextId, mqVars, listeners, phistory, published, a2aVars>>

\* The promise of a handler the pub/sub callback called settles; the handlers
\* in progress settle in any order.
PSHandlerSettled(r) ==
    /\ mode = "pubsub"
    /\ \E i \in DOMAIN running[r] :
           running' = [running EXCEPT ![r] = Settled(@, i)]
    /\ UNCHANGED <<can, required, memVars, consumer, messageHandlers, outcome, mode, now,
                   nextId, mqVars, psVars, a2aVars>>

NextHandlers ==
    \/ \E message \in MQRequests : MQSendMessage(message)
    \/ \E r \in Recipients : MQSubscribeToMessages(r)
    \/ \E r \in Recipients : MQHandlerCalled(r)
    \/ \E r \in Recipients : MQHandlerReturned(r)
    \/ \E r \in Recipients : MQHandlerThrew(r)
    \/ \E message \in PSRequests : PSSendMessage(message)
    \/ \E r \in Recipients : PSSubscribeToMessages(r)
    \/ PSHandlerCalled
    \/ \E r \in Recipients : PSHandlerSettled(r)

SpecHandlers == InitMQ /\ [][NextHandlers]_vars

(***************************************************************************)
(* Specification of the task reports: one session is started (and started  *)
(* again), and a caller of sendMessageToAgent reports the tasks of the     *)
(* workflow completed or failed, any task any number of times and in any   *)
(* order.                                                                  *)
(***************************************************************************)
MaxReports == 3   \* reports a caller sends in one behaviour

\* The reports about task taskId: its completion, with requirements that are a
\* text or an object, and a critical error, which asks for a reassignment.
TaskReports(taskId) ==
    {[type |-> "task_completion",
      payload |-> Payload(NoTask, taskId, r, "none", "none")] :
          r \in {"text", "docs", "obj"}}
    \cup {[type |-> "error_report",
           payload |-> Payload(NoTask, taskId, "none", "critical", "none")]}

\* A2AService.sendMessageToAgent, with a report about a task of the session
SvcSendTaskReport(sessionId, agentId) ==
    /\ mode = "pubsub"
    /\ UserMsgsSent < MaxReports
    /\ nextId <= MaxIds
    /\ \E taskId \in TaskIdsOf(workflow[sessionId]) :
           \E message \in TaskReports(taskId) :
               SetBroker(Send(Broker, listeners,
                              A2AMessage(message.type, sessionId, "user", agentId,
                                         message.payload, Absent, DefaultPriority)))
    /\ outcome' = Returned(<<nextId>>)
    /\ UNCHANGED <<can, required, memVars, loopVars, mode, now, mqVars, listeners, pev, a2aVars>>

NextReports ==
    \/ \E r \in UserRequirements : SvcStartSession(Session, r)
    \/ SvcActivateAgent(Session)
    \/ \E a \in Agents : SvcSendTaskReport(Session, a)
    \/ OrchCallback
    \/ AgentCallback

SpecReports == InitA2A /\ [][NextReports]_vars

(***************************************************************************)
(* Specification of the consumer ids: subscribeToMessages stores the       *)
(* handler in the Map messageHandlers under the key                        *)
(* `${agentId}_${Date.now()}`, and the callback it registers looks the     *)
(* handler up under that key when a message arrives.  Date.now() counts    *)
(* milliseconds and never runs backwards: a call reads the millisecond the *)
(* call before it read, or a later one.  The subscribers are those of      *)
(* activateAgentsForSession: the runtime of an agent (handleMessage) and   *)
(* the orchestrator for that agent (handleAgentMessage), in either         *)
(* session.                                                                *)
(***************************************************************************)
MaxSubscriptions == 3   \* subscribeToMessages calls in one behaviour

\* this.messageHandlers.set(consumerId, messageHandler)
MapPut(map, key, value) ==
    [k \in DOMAIN map \cup {key} |-> IF k = key THEN value ELSE map[k]]

\* The millisecond of the latest subscribeToMessages call
LastMillis ==
    IF DOMAIN messageHandlers = {} THEN 0
    ELSE CHOOSE t \in {k[2] : k \in DOMAIN messageHandlers} :
             \A k \in DOMAIN messageHandlers : k[2] <= t

\* `${agentId}_${Date.now()}`
ConsumerId(agentId, millis) == <<agentId, millis>>

SubscriptionsMade ==
    Cardinality({<<ch, i>> \in Channels \X (1 .. MaxSubscriptions) :
                     i \in DOMAIN listeners[ch]})

\* SimpleMessageQueue.subscribeToMessages(sessionId, agentId, messageHandler).
\* A subscription is the consumer id in the closure of its callback; the
\* handler it was registered with is kept beside it (history).
PSSubscribeConsumer(sessionId, agentId, messageHandler) ==
    /\ mode = "pubsub"
    /\ SubscriptionsMade < MaxSubscriptions
    /\ \E millis \in {LastMillis, LastMillis + 1} :
           LET consumerId == ConsumerId(agentId, millis)
           IN /\ messageHandlers' = MapPut(messageHandlers, consumerId, messageHandler)
              /\ listeners' = [listeners EXCEPT ![Channel(sessionId, agentId)] =
                                  Append(@, [consumerId |-> consumerId,
                                             handler |-> messageHandler])]
    /\ UNCHANGED <<can, required, memVars, consumer, running, outcome, mode, now, nextId,
                   mqVars, inflight, phistory, pev, published, a2aVars>>

\* The callback of subscribeToMessages: this.messageHandlers.get(consumerId)
\* is called with the message.
PSCallbackOfConsumer ==
    /\ inflight # <<>>
    /\ ~Expired(Head(inflight).msg, now)
    /\ inflight' = Tail(inflight)
    /\ pev' = Append(pev, [kind |-> "handed", id |-> Head(inflight).msg.id,
                           r |-> Head(inflight).ch[2],
                           registered |-> Head(inflight).who.handler,
                           invoked |-> messageHandlers[Head(inflight).who.consumerId]])
    /\ UNCHANGED <<can, required, memVars, loopVars, outcome, mode, now,
                   nextId, mqVars, listeners, phistory, published, a2aVars>>

\* The messages sent to the agents of the two sessions.
ConsumerRequests ==
    { [MQRequest(<<r>>, "obj", Absent, Absent) EXCEPT !.sessionId = s] :
          s \in Sessions, r \in Recipients }

NextConsumers ==
    \/ \E s \in Sessions : \E r \in Recipients : \E h \in {"agent", "orch"} :
           PSSubscribeConsumer(s, r, h)
    \/ \E message \in ConsumerRequests : PSSendMessage(message)
    \/ PSCallbackOfConsumer

SpecConsumers == InitA2A /\ [][NextConsumers]_vars

(***************************************************************************)
(* Specification of the progress reports: sessions are started with a      *)
(* requirement that activates code_conjurer, and a caller assigns it       *)
(* code_generation tasks.  The handler of an assignment is a span, as the  *)
(* pub/sub callback does not await it: handleTaskAssignment up to its      *)
(* first report, then generateCode from report to report, then             *)
(* completeTask; the steps of two handlers in progress interleave at the   *)
(* awaits.  An invocation in progress is the id of its task, the session   *)
(* of its message and the number of reports generateCode has made; pev     *)
(* records, for every task_progress message, the task and the session of   *)
(* the invocation that sent it (history).                                  *)
(***************************************************************************)
MaxProgressIds == 21   \* ids generated in one behaviour with progress reports

CodeGeneration == <<"code", "generation">>

\* The statuses of the four reports of CodeConjurerAgent.generateCode
GenerateCodeStatuses ==
    <<"analyzing_requirements", "generating_code", "adding_tests", "finalizing">>

\* getCurrentTaskId: the last key of the Map currentTasks (undefined when the
\* Map is empty)
GetCurrentTaskId(currentTasks) ==
    IF currentTasks = <<>> THEN Absent ELSE currentTasks[Len(currentTasks)].id

\* A2AService.sendMessageToAgent with the assignment of a code_generation task
\* of the caller's own to code_conjurer.
SvcAssignCodeGeneration(sessionId) ==
    /\ mode = "pubsub"
    /\ UserAssignmentsSent < MaxAssignments
    /\ nextId <= MaxIds
    /\ SetBroker(Send(Broker, listeners,
                      A2AMessage("task_assignment", sessionId, "user", CodeConjurer,
                                 Payload(Task(UserTaskId, CodeGeneration, CodeConjurer,
                                              "pending", DefaultPriority),
                                         Absent, "none", "none", "none"),
                                 Absent, DefaultPriority)))
    /\ outcome' = Returned(<<nextId>>)
    /\ UNCHANGED <<can, required, memVars, loopVars, mode, now, mqVars, listeners, pev, a2aVars>>

\* The next callback hands a runtime the assignment of a code_generation task.
CodeGenerationArrives ==
    /\ inflight # <<>>
    /\ Head(inflight).who = "agent"
    /\ Head(inflight).msg.type = "task_assignment"
    /\ Head(inflight).msg.payload.task.type = CodeGeneration
    /\ CanHandleTask(Head(inflight).ch[2], Head(inflight).msg.payload.task)

ProgressSent(taskId, sessionId, messageId) ==
    [kind |-> "progress", task |-> taskId, session |-> sessionId, id |-> messageId]

\* handleMessage and handleTaskAssignment up to the end of
\* await this.reportProgress(message.sessionId, task.id, 0, 'started')
AgentTaskStarted ==
    /\ CodeGenerationArrives
    /\ ~Expired(Head(inflight).msg, now)
    /\ nextId <= MaxProgressIds
    /\ LET message == Head(inflight).msg
           a == Head(inflight).ch[2]
           task == message.payload.task
       IN /\ agent' = [agent EXCEPT
                          ![a].currentTasks = MapSet(@, [task EXCEPT !.status = "in_progress"]),
                          ![a].status = "working"]
          /\ SetBroker(ReportProgress([Broker EXCEPT !.inflight = Tail(inflight)],
                                      message.sessionId, a, task.id, "started"))
          /\ memory' = [memory EXCEPT ![a] = UpdateMemory(@, message, now)]
          /\ arrived' = [arrived EXCEPT ![a] = Append(@, message)]
          /\ running' = [running EXCEPT ![a] =
                            Append(@, [task |-> task.id, sessionId |-> message.sessionId,
                                       reported |-> 0])]
          /\ pev' = Append(pev, ProgressSent(task.id, message.sessionId, nextId))
    /\ UNCHANGED <<can, required, consumer, messageHandlers, outcome, mode, now, mqVars,
                   listeners, workflow, orchAgents, svcAgents, starting>>

\* generateCode of the i-th invocation in progress on runtime a, from one
\* await this.reportProgress(this.activeSession, this.getCurrentTaskId(), ...)
\* to the next
AgentExecutorReported(a, i) ==
    /\ i \in DOMAIN running[a]
    /\ running[a][i].reported < Len(GenerateCodeStatuses)
    /\ nextId <= MaxProgressIds
    /\ SetBroker(ReportProgress(Broker, agent[a].activeSession, a,
                                GetCurrentTaskId(agent[a].currentTasks),
                                GenerateCodeStatuses[running[a][i].reported + 1]))
    /\ running' = [running EXCEPT ![a][i].reported = @ + 1]
    /\ pev' = Append(pev, ProgressSent(running[a][i].task, running[a][i].sessionId, nextId))
    /\ UNCHANGED <<can, required, memVars, consumer, messageHandlers, outcome, mode, now,
                   mqVars, listeners, a2aVars>>

\* generateCode has returned: await this.completeTask(message.sessionId,
\* task.id, result), and the handler ends.
AgentTaskCompleted(a, i) ==
    /\ i \in DOMAIN running[a]
    /\ running[a][i].reported = Len(GenerateCodeStatuses)
    /\ nextId <= MaxProgressIds
    /\ LET o == CompleteTask(agent[a], Broker, running[a][i].sessionId, a,
                             running[a][i].task)
       IN /\ agent' = [agent EXCEPT ![a] = o.ag]
          /\ SetBroker(o.b)
    /\ running' = [running EXCEPT ![a] = Settled(@, i)]
    /\ UNCHANGED <<can, required, memVars, consumer, messageHandlers, outcome, mode, now,
                   mqVars, listeners, pev, workflow, orchAgents, svcAgents, starting>>

NextProgress ==
    \/ \E s \in Sessions : SvcStartSession(s, "code")
    \/ \E s \in Sessions : SvcActivateAgent(s)
    \/ \E s \in Sessions : SvcAssignCodeGeneration(s)
    \/ OrchCallback
    \/ (~CodeGenerationArrives /\ AgentCallback)
    \/ AgentTaskStarted
    \/ \E a \in Agents : \E i \in 1 .. MaxAssignments : AgentExecutorReported(a, i)
    \/ \E a \in Agents : \E i \in 1 .. MaxAssignments : AgentTaskCompleted(a, i)

SpecProgress == InitA2A /\ [][NextProgress]_vars

(***************************************************************************)
(* Specification of the failing publishes: a Redis command of sendMessage  *)
(* is rejected, the catch logs the failure and throws.  The commands of    *)
(* the loop over the recipients before the rejected one have taken effect, *)
(* the rejected one and those after it have not.                           *)
(***************************************************************************)
\* sendMessage threw: no id is returned; the id it had generated and the
\* number of the command that was rejected are kept (history).
Thrown(messageId, command) == Outcome(<<>>, <<messageId, command>>)

\* MessageQueue.sendMessage, the command-th command rejected; a recipient
\* takes two commands, XADD to its stream and XADD to the log.
MQSendMessageThrows(message, command) ==
    /\ mode = "durable"
    /\ nextId <= MaxMsgs
    /\ command \in 1 .. (2 * Len(RecipientsOf(message)))
    /\ LET enriched == EnrichedMessage(message, nextId, now)
           entry == [msg |-> JsonRoundTrip(enriched), from |-> 0]
           added == SubSeq(RecipientsOf(message), 1, command \div 2)
           logged == SubSeq(RecipientsOf(message), 1, (command - 1) \div 2)
       IN /\ stream' = XAddAll(stream, added, entry)
          /\ mqlog' = LogAll(mqlog, logged, enriched)
    /\ nextId' = nextId + 1
    /\ outcome' = Thrown(nextId, command)
    /\ UNCHANGED <<can, required, memVars, loopVars, mode, now, lastRead, pel, subscribed, timers, dlq, ev, psVars, a2aVars>>

\* SimpleMessageQueue.sendMessage, the command-th command rejected; a
\* recipient takes three commands, PUBLISH, LPUSH and EXPIRE.
PSSendMessageThrows(message, command) ==
    /\ mode = "pubsub"
    /\ nextId <= MaxMsgs
    /\ command \in 1 .. (3 * Len(RecipientsOf(message)))
    /\ LET enriched == SimpleEnrichedMessage(message, nextId, now)
           sent == SubSeq(RecipientsOf(message), 1, (command + 1) \div 3)
           pushed == SubSeq(RecipientsOf(message), 1, command \div 3)
       IN /\ inflight' = PublishAll(inflight, sent, JsonRoundTrip(enriched), listeners)
          /\ phistory' = HistoryAll(phistory, pushed, enriched)
          /\ published' = PublishedAll(published, sent, JsonRoundTrip(enriched))
    /\ nextId' = nextId + 1
    /\ outcome' = Thrown(nextId, command)
    /\ UNCHANGED <<can, required, memVars, loopVars, mode, now, mqVars, listeners, pev, a2aVars>>

\* The commands of a sendMessage call to at most two recipients.
Commands == 1 .. 6

NextFailures ==
    \/ \E message \in MQRequests : MQSendMessage(message)
    \/ \E message \in MQRequests : \E command \in Commands :
           MQSendMessageThrows(message, command)
    \/ \E r \in Recipients : MQSubscribeToMessages(r)
    \/ \E r \in Recipients : MQConsumeOk(r)
    \/ \E message \in PSRequests : PSSendMessage(message)
    \/ \E message \in PSRequests : \E command \in Commands :
           PSSendMessageThrows(message, command)
    \/ \E r \in Recipients : PSSubscribeToMessages(r)
    \/ PSCallbackHandler

SpecFailures == InitMQ /\ [][NextFailures]_vars

(***************************************************************************)
(* Specification of the session operations: sessions are started, and a    *)
(* caller broadcasts to a session, asks for its status and stops it.       *)
(***************************************************************************)
\* BaseAgent.getStatus, without the constants of the agent, the metrics and
\* the time
GetStatus(a) ==
    [id |-> a, status |-> agent[a].status, currentTasks |-> Len(agent[a].currentTasks),
     activeSession |-> agent[a].activeSession]

\* What getSessionStatus returns: the workflow status and, under agents, the
\* status of each agent it found.
SessionStatus(workflowStatus, agentStatuses) ==
    [ids |-> <<>>, logged |-> <<>>, workflow |-> workflowStatus,
     agents |-> agentStatuses]

\* A2AService.getSessionStatus, of a session that has a workflow: the agents of
\* the keys that start with the session id.
SvcGetSessionStatus(sessionId) ==
    /\ mode = "pubsub"
    /\ workflow[sessionId].status # "none"
    /\ LET keys == SelectSeq(svcAgents, LAMBDA k : StartsWith(k, sessionId))
       IN outcome' = SessionStatus(GetWorkflowStatus(workflow[sessionId]),
                                   {GetStatus(KeyAgent(keys[i])) : i \in DOMAIN keys})
    /\ UNCHANGED <<can, required, memVars, loopVars, mode, now, nextId, mqVars, psVars, a2aVars>>

\* No broadcast has published a message: the caller broadcasts until one of
\* its broadcasts gets a message through.
NoBroadcastPublished ==
    \A i \in DOMAIN published : published[i].msg.fromAgent # "user"

NextSessions ==
    \/ \E s \in Sessions : \E r \in UserRequirements : SvcStartSession(s, r)
    \/ \E s \in Sessions : SvcActivateAgent(s)
    \/ \E s \in Sessions : (NoBroadcastPublished /\ SvcBroadcastMessage(s))
    \/ \E s \in Sessions : SvcGetSessionStatus(s)
    \/ \E s \in Sessions : SvcStopSession(s)
    \/ OrchCallback
    \/ AgentCallback

SpecSessions == InitA2A /\ [][NextSessions]_vars


(***************************************************************************)
(* Properties of the brokers.                                              *)
(***************************************************************************)
MsgIds == 1 .. (nextId - 1)

\* The entries of stream r that hold message id, first delivery and retries.
EntriesOf(r, id) == {e \in DOMAIN stream[r] : stream[r][e].msg.id = id}

Read(r) == 1 .. lastRead[r]

Handed(r) == {e \in Read(r) : ev[r][e].kind \in {"ok", "fail"}}

\* The deliveries of message id on stream r on which the handler threw.
Failures(r, id) == Cardinality({e \in EntriesOf(r, id) \cap Read(r) :
                                   ev[r][e].kind = "fail"})

DlqCount(id) == Cardinality({i \in DOMAIN dlq : dlq[i].msg.id = id})

Undelivered(r, id) == \E e \in EntriesOf(r, id) : e > lastRead[r]

Unacknowledged(r, id) == \E e \in EntriesOf(r, id) : e \in pel[r]

\* C1: once the handler has failed maxRetries times on the deliveries of a
\* message on a stream, the message is exactly once in the session's
\* dead-letter record and no copy of it is undelivered or unacknowledged on that
\* stream; before the maxRetries-th failure it is not in the dead-letter record.
C1_DeadLetteredOnceAfterMaxRetries ==
    \A r \in Recipients : \A id \in MsgIds :
        EntriesOf(r, id) # {} =>
            /\ Failures(r, id) = DefaultMaxRetries =>
                  /\ DlqCount(id) = 1
                  /\ ~Undelivered(r, id)
                  /\ ~Unacknowledged(r, id)
            /\ Failures(r, id) < DefaultMaxRetries => DlqCount(id) = 0

\* C1 for the messages published to one recipient only (what remains of C1
\* when the fan-out of C6 is set aside).
SingleRecipientDeadLetteredOnce ==
    \A r \in Recipients : \A id \in MsgIds :
        (\E e \in EntriesOf(r, id) : Len(stream[r][e].msg.toAgent) = 1) =>
            /\ Failures(r, id) = DefaultMaxRetries =>
                  /\ DlqCount(id) = 1
                  /\ ~Undelivered(r, id)
                  /\ ~Unacknowledged(r, id)
            /\ Failures(r, id) < DefaultMaxRetries => DlqCount(id) = 0

\* C2: in both brokers a delivery of a message older than its ttl never reaches
\* the handler: the durable broker acknowledges it and produces neither a retry
\* nor a dead-letter record for it, the pub/sub broker drops it.
C2_ExpiredNeverHanded ==
    /\ \A r \in Recipients : \A e \in Read(r) :
          ev[r][e].old =>
              /\ ev[r][e].kind = "expired"
              /\ e \notin pel[r]
              /\ \A t \in timers : ~(t.r = r /\ t.entry = e)
              /\ \A f \in DOMAIN stream[r] : stream[r][f].from # e
              /\ \A i \in DOMAIN dlq : dlq[i].src # <<r, e>>
    /\ \A i \in DOMAIN pev : pev[i].old => pev[i].kind = "expired"

\* C2's case: a retried message that expired during the backoff was read.
C2_Witness ==
    \E r \in Recipients : \E e \in Read(r) :
        ev[r][e].old /\ stream[r][e].from # 0

\* C3: the messages of a stream reach the handler in the order they were
\* published (ids are generated in that order), retries included: no delivery
\* of a message follows a delivery of a message published after it.
C3_HandedInPublishOrder ==
    \A r \in Recipients : \A e1, e2 \in Handed(r) :
        e1 < e2 => stream[r][e1].msg.id <= stream[r][e2].msg.id

\* C4: a message that reached the handler and whose handler threw on every
\* delivery is not gone from the stream (nothing undelivered, nothing
\* unacknowledged, no retry pending) without being in the dead-letter record,
\* whatever its ttl.
C4_FailingMessageReachesDeadLetter ==
    \A r \in Recipients : \A id \in MsgIds :
        ( /\ Failures(r, id) >= 1
          /\ \A e \in EntriesOf(r, id) \cap Read(r) : ev[r][e].kind # "ok"
          /\ ~Undelivered(r, id)
          /\ ~Unacknowledged(r, id) )
        => \E i \in DOMAIN dlq : dlq[i].msg.id = id /\ dlq[i].src[1] = r

\* C5: an entry re-published by the retry policy is the failed delivery's
\* message with retryCount one greater: same id, correlationId and payload, and
\* no other field changed.
C5_RetryPreservesIdentity ==
    \A r \in Recipients : \A e \in DOMAIN stream[r] :
        stream[r][e].from # 0 =>
            LET failed == stream[r][stream[r][e].from].msg
                again == stream[r][e].msg
            IN /\ ev[r][stream[r][e].from].kind = "fail"
               /\ again.retryCount = failed.retryCount + 1
               /\ again.id = failed.id
               /\ again.correlationId = failed.correlationId
               /\ again.payload = failed.payload
               /\ again = [failed EXCEPT !.retryCount = again.retryCount]

\* C5's case: a second retry of a message whose payload JSON rewrote and whose
\* correlation id the caller supplied.
C5_Witness ==
    \E r \in Recipients : \E e \in DOMAIN stream[r] :
        /\ stream[r][e].from # 0
        /\ stream[r][e].msg.retryCount = 2
        /\ stream[r][e].msg.payload = "null"
        /\ stream[r][e].msg.correlationId # stream[r][e].msg.id

\* C6: the dead-letter record of the session holds at most one entry per
\* message id, and a message in the dead-letter record is not handed to a
\* handler again.
C6_DeadLetteredAtMostOnce ==
    /\ \A id \in MsgIds : DlqCount(id) <= 1
    /\ \A r \in Recipients : \A e \in Handed(r) : ~ev[r][e].dl

(***************************************************************************)
(* Properties of the orchestrator and of the service.                      *)
(***************************************************************************)
\* The place of a phase in workflow.phases; 0 for a session without workflow.
PhaseRank(phase) ==
    IF \E i \in DOMAIN Phases : Phases[i] = phase
    THEN CHOOSE i \in DOMAIN Phases : Phases[i] = phase
    ELSE 0

\* The task_assignment messages published for task t of session s.
AssignmentsOf(s, t) ==
    {i \in DOMAIN published :
        /\ published[i].msg.type = "task_assignment"
        /\ published[i].msg.sessionId = s
        /\ published[i].msg.correlationId = t.id}

\* The requirements analyses published for session s, one per startSession.
StartsOf(s) ==
    {i \in DOMAIN published :
        /\ published[i].msg.type = "task_assignment"
        /\ published[i].msg.sessionId = s
        /\ published[i].msg.payload.task.type = RequirementsAnalysis}

\* C7: over any sequence of operations the current phase of the workflow of a
\* session never moves backwards in analysis < planning < implementation <
\* review < completion.
C7_PhaseNeverRegresses ==
    [][\A s \in Sessions :
          PhaseRank(workflow'[s].currentPhase) >= PhaseRank(workflow[s].currentPhase)
      ]_vars

\* The state the orchestrator's startSession leaves for session s.
StartedWorkflow(s) ==
    LET wf == workflow[s]
    IN /\ wf.currentPhase = "analysis"
       /\ wf.completedTasks = <<>>
       /\ Len(wf.activeTasks) = 1
       /\ wf.activeTasks[1].type = RequirementsAnalysis
       /\ wf.activeTasks[1].assignedAgent = Architectrix
       /\ wf.activeTasks[1].priority = 10
       /\ Cardinality(AssignmentsOf(s, wf.activeTasks[1])) = 1
       /\ \A i \in AssignmentsOf(s, wf.activeTasks[1]) :
              /\ published[i].to = Architectrix
              /\ published[i].msg.priority = 10
              /\ published[i].msg.payload.task = wf.activeTasks[1]

\* C8: right after the orchestrator's startSession for session s the workflow
\* is in phase analysis and its tasks are exactly one task, a
\* requirements_analysis assigned to architectrix at priority 10, for which
\* exactly one task_assignment at priority 10 has been published; the workflow
\* holds no task older than it.
C8_StartSessionCreatesAnalysisTask ==
    [][\A s \in Sessions :
          (\E r \in UserRequirements : SvcStartSession(s, r)) => StartedWorkflow(s)'
      ]_vars

\* C8's case: startSession has run a second time for a session, whose earlier
\* analysis task was published too, and the workflow is as it left it.
C8_Witness ==
    \E s \in Sessions :
        /\ Cardinality(StartsOf(s)) = 2
        /\ workflow[s].status = "planning"
        /\ StartedWorkflow(s)

\* C9: when the service's startSession for a new session has returned, the
\* agents are activated, no callback is left to run and no caller has sent
\* or stopped anything, the workflow is in phase implementation with an
\* implementation task assigned.  Nothing but a new request changes such a
\* state, so the workflow that is not there yet never gets there.
C9_StartedSessionReachesImplementation ==
    \A s \in Sessions :
        ( /\ Cardinality(StartsOf(s)) = 1
          /\ workflow[s].status = "planning"
          /\ starting[s] = <<>>
          /\ inflight = <<>>
          /\ UserMsgsSent = 0 )
        => /\ workflow[s].currentPhase = "implementation"
           /\ \E i \in DOMAIN workflow[s].activeTasks :
                  workflow[s].activeTasks[i].type # RequirementsAnalysis

(***************************************************************************)
(* Properties of the agent runtimes and of the service.                    *)
(***************************************************************************)
\* The runtime a of the runtimes ags has a task of that id in its
\* currentTasks map.
HeldBy(ags, a, taskId) ==
    \E i \in DOMAIN ags[a].currentTasks : ags[a].currentTasks[i].id = taskId

Holds(a, taskId) == HeldBy(agent, a, taskId)

ActiveIn(s) == {a \in Agents : \E i \in DOMAIN svcAgents : svcAgents[i] = Key(s, a)}

\* The PUBLISH commands of the step.
NewlyPublished == SubSeq(published', Len(published) + 1, Len(published'))

\* A broadcast to session s made one attempt for each agent active in s, and
\* returned the ids of the messages sent, one per agent whose send succeeded;
\* the other attempts were logged as failures.
BroadcastReturnsOneIdPerSuccess(s) ==
    /\ Len(outcome'.ids) + Len(outcome'.logged) = Cardinality(ActiveIn(s))
    /\ Len(outcome'.ids) = Len(NewlyPublished)
    /\ \A i \in DOMAIN NewlyPublished :
          /\ NewlyPublished[i].msg.id = outcome'.ids[i]
          /\ NewlyPublished[i].msg.sessionId = s
          /\ NewlyPublished[i].to \in ActiveIn(s)
    /\ \A a \in ActiveIn(s) :
          Cardinality({i \in DOMAIN NewlyPublished : NewlyPublished[i].to = a})
            + Cardinality({i \in DOMAIN outcome'.logged : outcome'.logged[i] = a}) = 1

\* C12: broadcastMessage attempts a send to every agent active in the session
\* whatever the earlier sends did, and returns exactly one message id per
\* agent whose send succeeded and none for the others.
C12_BroadcastOneIdPerSuccessfulSend ==
    [][\A s \in Sessions : SvcBroadcastMessage(s) => BroadcastReturnsOneIdPerSuccess(s)
      ]_vars

\* C12 for the session whose id is the prefix of no other session's id.
BroadcastSession10OneIdPerSuccessfulSend ==
    [][SvcBroadcastMessage(Session10) => BroadcastReturnsOneIdPerSuccess(Session10)
      ]_vars

\* A broadcast to two agents of which the first send failed and the second
\* succeeded has returned.
BroadcastSession10Witness ==
    /\ Len(outcome.ids) = 1
    /\ Len(outcome.logged) = 1
    /\ published # <<>>
    /\ published[Len(published)].msg.id = outcome.ids[1]
    /\ published[Len(published)].msg.sessionId = Session10
\* C13: once stopSession(s) has completed (and s has not been started again),
\* no subscriber handler, of an agent or of the orchestrator, is invoked for a
\* message on a stream of s.
C13_NoHandlerAfterStop ==
    [][( /\ OrchCallback \/ AgentCallback
         /\ ~Expired(Head(inflight).msg, now) )
       => workflow[Head(inflight).ch[1]].status # "stopped"
      ]_vars
\* What stopSession(s) leaves: the workflow stopped, every runtime that was
\* active in s without tasks, offline and no longer active in s, and for each
\* task such a runtime had in progress one error report with the task's id.
StopSessionShutsDown(s) ==
    /\ workflow[s].status # "none" => workflow'[s].status = "stopped"
    /\ \A a \in ActiveIn(s) :
          /\ agent'[a].currentTasks = <<>>
          /\ agent'[a].status = "offline"
          /\ a \notin ActiveIn(s)'
          /\ \A i \in DOMAIN agent[a].currentTasks :
                 agent[a].currentTasks[i].status = "in_progress" =>
                     Cardinality({j \in DOMAIN NewlyPublished :
                         /\ NewlyPublished[j].msg.type = "error_report"
                         /\ NewlyPublished[j].msg.fromAgent = a
                         /\ NewlyPublished[j].msg.payload.taskId
                                = agent[a].currentTasks[i].id}) = 1

TagOrSpecializationMatches ==
    \/ \E cap \in can.capabilities : Includes(cap, <<Head(can.type)>>)
    \/ Includes(can.type, can.specialization)

\* C15: for every capability list, specialization and task type,
\* canHandleTask is true exactly when some capability tag contains the prefix
\* of the type (the part before the first '_') or the type contains the
\* specialization.
C15_CanHandleIffTagOrSpecialization ==
    \A result \in can.result : result <=> TagOrSpecializationMatches

\* C15 for the agents that have a capability.
CanHandleIffMatchesWithCapabilities ==
    can.capabilities # {} => C15_CanHandleIffTagOrSpecialization

\* The example of C15: capabilities ["backend_development"], specialization
\* "backend_development", task type "frontend_implementation".
BackendAgentCannotHandleFrontend ==
    ( /\ can.capabilities = { <<"backend", "development">> }
      /\ can.specialization = <<"backend", "development">>
      /\ can.type = <<"frontend", "implementation">> )
    => \A result \in can.result : ~result
\* The step is a runtime's handling of a task_assignment.
AssignmentHandled ==
    /\ AgentCallback
    /\ ~Expired(Head(inflight).msg, now)
    /\ Head(inflight).msg.type = "task_assignment"

\* The runtime that handles it, and the task assigned.
Receiver == Head(inflight).ch[2]

AssignedTask == Head(inflight).msg.payload.task

\* The i-th message of the step is a report of that type by the receiver.
Reported(i, type) ==
    /\ NewlyPublished[i].msg.type = type
    /\ NewlyPublished[i].msg.fromAgent = Receiver
    /\ NewlyPublished[i].to = "orchestrator"

\* C16: a runtime that receives a task_assignment for which canHandleTask is
\* false emits exactly one error_report, of severity low, and nothing else (no
\* progress, no completion: executeTask is not called), and registers no task.
C16_IncompatibleTaskRejected ==
    [][( /\ AssignmentHandled
         /\ ~CanHandleTask(Receiver, AssignedTask) )
       => /\ Len(NewlyPublished) = 1
          /\ Reported(1, "error_report")
          /\ NewlyPublished[1].msg.payload.severity = "low"
          /\ agent'[Receiver].currentTasks = agent[Receiver].currentTasks
          /\ ~HeldBy(agent', Receiver, AssignedTask.id)
      ]_vars

\* C16's case: a runtime has rejected a task.
C16_Witness ==
    \E a \in Agents : \E i \in DOMAIN published :
        /\ published[i].msg.type = "error_report"
        /\ published[i].msg.fromAgent = a
        /\ published[i].msg.payload.severity = "low"
        /\ agent[a].currentTasks = <<>>

C18_FailedTaskReportedHigh ==
    [][( /\ AssignmentHandled
         /\ CanHandleTask(Receiver, AssignedTask)
         /\ AssignedTask.type \notin SupportedTaskTypes(Receiver) )
       => /\ Len(NewlyPublished) = 2
          /\ Reported(1, "task_progress")
          /\ Reported(2, "error_report")
          /\ NewlyPublished[2].msg.payload.severity = "high"
          /\ NewlyPublished[2].msg.payload.taskId = AssignedTask.id
          /\ \E i \in DOMAIN agent'[Receiver].currentTasks :
                 /\ agent'[Receiver].currentTasks[i].id = AssignedTask.id
                 /\ agent'[Receiver].currentTasks[i].status = "in_progress"
      ]_vars

\* C18's case: a runtime reported a failed task and still holds it.
C18_Witness ==
    \E a \in Agents : \E i \in DOMAIN published :
        /\ published[i].msg.type = "error_report"
        /\ published[i].msg.fromAgent = a
        /\ published[i].msg.payload.severity = "high"
        /\ Holds(a, published[i].msg.payload.taskId)
\* The error reports the runtime a has sent.
ErrorsReported(a) ==
    Cardinality({i \in DOMAIN published :
                    /\ published[i].msg.type = "error_report"
                    /\ published[i].msg.fromAgent = a})

\* C20: after any sequence of task successes and reported errors (at least
\* one), the errorRate of a runtime is errors / (completed + errors), as a
\* percentage, over all the errors it has reported so far; after one error and
\* then one success it is one half, not zero.
C20_ErrorRateOverAllErrors ==
    \A a \in Agents :
        LET errors == ErrorsReported(a)
            completed == agent[a].metrics.tasksCompleted
            errorRate == agent[a].metrics.errorRate
        IN completed + errors > 0 =>
               errorRate.num * (completed + errors) = errors * errorRate.den

\* The errorRate the code leaves: zero after a success, and after an error
\* report one error over the tasks completed plus one.
ErrorRateOfLastEvent ==
    \A a \in Agents :
        LET completed == agent[a].metrics.tasksCompleted
            errorRate == agent[a].metrics.errorRate
        IN \/ errorRate = Percent(0, 1)
           \/ errorRate = Percent(1, completed + 1)

(***************************************************************************)
(* Properties of a publish.                                                *)
(***************************************************************************)
\* The recipients of a request, as a set.
RecipientSet(message) ==
    {RecipientsOf(message)[i] : i \in DOMAIN RecipientsOf(message)}

\* The audit records of the copy of message id for recipient r: in a2a:log of
\* the durable broker, in a2a:history of the pub/sub broker.
RecordsIn(log, id, r) ==
    {i \in DOMAIN log : log[i].messageId = id /\ log[i].toAgent = r}

LogRecordsOf(id, r) == RecordsIn(mqlog, id, r)

HistoryRecordsOf(id, r) == RecordsIn(phistory, id, r)

\* The entries published for message id to recipient r: the XADDs of
\* sendMessage (not those of a retry), the PUBLISH commands.
PublishedEntriesOf(id, r) == {e \in EntriesOf(r, id) : stream[r][e].from = 0}

CommandsIn(pub, id, r) ==
    {i \in DOMAIN pub : pub[i].msg.id = id /\ pub[i].to = r}

PublishCommandsOf(id, r) == CommandsIn(published, id, r)

\* A publish of the durable broker: one more entry, with the new id, at the end
\* of the stream of each recipient and of no other stream, one audit record
\* with that id per recipient, and the id returned.
DurablePublishAudited(message) ==
    /\ \A r \in Recipients :
          IF r \in RecipientSet(message)
          THEN /\ Len(stream'[r]) = Len(stream[r]) + 1
               /\ SubSeq(stream'[r], 1, Len(stream[r])) = stream[r]
               /\ stream'[r][Len(stream'[r])].msg.id = nextId
          ELSE stream'[r] = stream[r]
    /\ Len(mqlog') = Len(mqlog) + Cardinality(RecipientSet(message))
    /\ SubSeq(mqlog', 1, Len(mqlog)) = mqlog
    /\ \A r \in RecipientSet(message) : Cardinality(RecordsIn(mqlog', nextId, r)) = 1
    /\ outcome'.ids = <<nextId>>

\* A publish of the pub/sub broker: one PUBLISH with the new id on the channel
\* of each recipient, one history record with that id per recipient, and the
\* id returned.
PubSubPublishAudited(message) ==
    /\ Len(NewlyPublished) = Cardinality(RecipientSet(message))
    /\ \A r \in RecipientSet(message) :
          /\ Cardinality(CommandsIn(published', nextId, r)) = 1
          /\ Cardinality(RecordsIn(phistory', nextId, r)) = 1
    /\ Len(phistory') = Len(phistory) + Cardinality(RecipientSet(message))
    /\ outcome'.ids = <<nextId>>

\* The history holds one record per (message, recipient) published.
OneRecordPerCopy ==
    \A id \in MsgIds : \A r \in Recipients :
        /\ Cardinality(LogRecordsOf(id, r)) = Cardinality(PublishedEntriesOf(id, r))
        /\ Cardinality(HistoryRecordsOf(id, r)) = Cardinality(PublishCommandsOf(id, r))
        /\ Cardinality(LogRecordsOf(id, r)) <= 1
        /\ Cardinality(HistoryRecordsOf(id, r)) <= 1

Records(entry, message) ==
    /\ entry.type = message.type
    /\ entry.fromAgent = message.fromAgent
    /\ entry.content = message.payload

\* C21: after any sequence of inbound messages the conversation memory of a
\* runtime holds at most 50 entries, and they are the most recent min(n, 50)
\* messages it was handed, in arrival order.
C21_MemoryIsLastFiftyArrivals ==
    \A a \in Agents :
        LET n == Len(arrived[a])
            k == IF n < 50 THEN n ELSE 50
        IN /\ Len(memory[a]) = k
           /\ \A i \in 1 .. k : Records(memory[a][i], arrived[a][n - k + i])

\* A 51st message has arrived and the first one has been evicted.
C21_Witness ==
    \E a \in Agents :
        /\ Len(arrived[a]) = 51
        /\ Len(memory[a]) = 50
        /\ Records(memory[a][1], arrived[a][2])
        /\ ~Records(memory[a][1], arrived[a][1])

(***************************************************************************)
(* Properties of the defaults of sendMessage.                              *)
(***************************************************************************)
\* The value a published message is to carry for a field the caller may
\* supply: the value supplied, or the default when none is.
SuppliedOr(v, default) == IF v = Absent THEN default ELSE v

\* The message published by the step to the stream of architectrix.
LastAdded == stream'[Architectrix][Len(stream'[Architectrix])].msg

\* The message of the last PUBLISH command of the step.
LastPublished == published'[Len(published')].msg

CarriesSupplied(msg, message) ==
    /\ msg.priority = SuppliedOr(message.priority, 5)
    /\ msg.ttl = SuppliedOr(message.ttl, 300)

\* C22: a published message carries the caller-supplied priority for every
\* supplied value in 0..10 (0 included) and 5 only when none is supplied, the
\* caller-supplied ttl or 300 when none is supplied, and (where the broker
\* retries) starts with retryCount 0 and maxRetries 3.
C22_PublishedCarriesSuppliedPriorityAndTtl ==
    [][\A message \in SuppliedRequests :
           /\ MQSendMessage(message) =>
                  /\ CarriesSupplied(LastAdded, message)
                  /\ LastAdded.retryCount = 0
                  /\ LastAdded.maxRetries = 3
           /\ PSSendMessage(message) => CarriesSupplied(LastPublished, message)
      ]_vars

(***************************************************************************)
(* Properties of the implementation planning.                              *)
(***************************************************************************)
ImplementationTasks(tasks) ==
    {i \in DOMAIN tasks : tasks[i].type # RequirementsAnalysis}

\* C23: the phase is advanced to implementation before the task_assignment of
\* any implementation task is published: at the moment an implementation
\* task_assignment is published, and whenever an implementation task is in
\* activeTasks, the phase of the workflow is implementation.
C23_ImplementationAssignedInImplementationPhase ==
    \A s \in Sessions :
        /\ \A e \in workflow[s].assignedIn :
               e.type # RequirementsAnalysis => e.phase = "implementation"
        /\ ImplementationTasks(workflow[s].activeTasks) # {}
               => workflow[s].currentPhase = "implementation"

\* The step is the orchestrator's handling of the task_completion of the
\* requirements_analysis task of session s, an active task.
AnalysisCompletionHandled(s) ==
    /\ OrchCallback
    /\ LET cb == Head(inflight)
           i == FindIndex(workflow[s].activeTasks, cb.msg.payload.taskId)
       IN /\ cb.ch[1] = s
          /\ cb.msg.type = "task_completion"
          /\ ~Expired(cb.msg, now)
          /\ i # 0
          /\ workflow[s].activeTasks[i].type = RequirementsAnalysis

\* The agents derived from the requirements of the result being handled.
DerivedAgents ==
    LET needed == OrchDetermineRequiredAgents(Head(inflight).msg.payload.result)
    IN {needed[i] : i \in DOMAIN needed}

AssignmentsPublished(newly, task) ==
    {j \in DOMAIN newly :
        /\ newly[j].msg.type = "task_assignment"
        /\ newly[j].msg.payload.task.id = task.id
        /\ newly[j].to = task.assignedAgent}

\* Workflow wf holds one implementation task for each agent of needed and none
\* for another agent, each active with its agent in activeAgents, and newly
\* holds one task_assignment per task.
OneTaskPerAgent(wf, needed, newly) ==
    /\ \A a \in RegisteredIds :
           Cardinality({i \in ImplementationTasks(wf.activeTasks) :
                           wf.activeTasks[i].assignedAgent = a})
               = IF a \in needed THEN 1 ELSE 0
    /\ ImplementationTasks(wf.completedTasks) = {}
    /\ needed \subseteq wf.activeAgents
    /\ \A i \in ImplementationTasks(wf.activeTasks) :
           Cardinality(AssignmentsPublished(newly, wf.activeTasks[i])) = 1
    /\ Cardinality({j \in DOMAIN newly : newly[j].msg.type = "task_assignment"})
           = Cardinality(needed)

\* C24: after the orchestrator has handled the task_completion of the
\* requirements_analysis task, the workflow holds exactly one implementation
\* task for each agent of the derived set and none for any other agent, each
\* in activeTasks with its agent in activeAgents, and exactly one
\* task_assignment has been published per task.
C24_OneImplementationTaskPerDerivedAgent ==
    [][\A s \in Sessions :
           AnalysisCompletionHandled(s)
               => OneTaskPerAgent(workflow'[s], DerivedAgents, NewlyPublished)
      ]_vars

\* The same, for a result whose requirements are a text.
OneImplementationTaskPerAgentOfText ==
    [][\A s \in Sessions :
           AnalysisCompletionHandled(s) /\ IsText(Head(inflight).msg.payload.result)
               => OneTaskPerAgent(workflow'[s], DerivedAgents, NewlyPublished)
      ]_vars

\* A text that names the documentation was handled: two tasks are active.
TwoImplementationTasksActive ==
    \E s \in Sessions :
        Cardinality(ImplementationTasks(workflow[s].activeTasks)) = 2

(***************************************************************************)
(* Properties of the agent selection.                                      *)
(***************************************************************************)
\* C25: for the same requirement text the set of agents the orchestrator
\* derives for implementation equals the set the service's selection rule
\* derives at session start.
C25_SelectionRulesAgree ==
    required.orchestrator # {} => required.orchestrator = required.service

\* Every agent given an implementation task was activated for the session.
ImplementationAgentsActivated ==
    \A s \in Sessions :
        \A i \in ImplementationTasks(workflow[s].activeTasks) :
            Key(s, workflow[s].activeTasks[i].assignedAgent) \in orchAgents

(***************************************************************************)
(* Properties of the orchestrator's handling of agent messages.            *)
(***************************************************************************)
AgentMessageTypes ==
    {"task_completion", "task_progress", "error_report", "agent_question",
     "collaboration_request"}

\* The step is the orchestrator's handling of an agent message for session s.
AgentMessageHandled(s) ==
    /\ OrchCallback
    /\ Head(inflight).ch[1] = s
    /\ Head(inflight).msg.type \in AgentMessageTypes
    /\ ~Expired(Head(inflight).msg, now)

\* The step leaves the phase and the tasks of the workflow of s as they are.
TasksAndPhaseUnchanged(s) ==
    /\ workflow'[s].currentPhase = workflow[s].currentPhase
    /\ workflow'[s].activeTasks = workflow[s].activeTasks
    /\ workflow'[s].completedTasks = workflow[s].completedTasks

\* C26: after the workflow of session s has been stopped, every agent message
\* the orchestrator handles for s leaves the phase, activeTasks and
\* completedTasks of the workflow unchanged and publishes no message.
C26_StoppedWorkflowIgnoresAgentMessages ==
    [][\A s \in Sessions :
           AgentMessageHandled(s) /\ workflow[s].status = "stopped"
               => TasksAndPhaseUnchanged(s) /\ published' = published
      ]_vars

\* The agents the orchestrator holds a registration of for session s.
RegisteredFor(regs, s) == {a \in RegisteredIds : Key(s, a) \in regs}

\* C27: after stopWorkflow(s) the workflow of s is marked stopped and the
\* orchestrator holds no agent registration for session s, whether or not
\* the agent was ever assigned a task.
C27_StopWorkflowReleasesRegistrations ==
    [][\A s \in Sessions :
           SvcStopSession(s) /\ workflow[s].status # "none"
               => /\ workflow'[s].status = "stopped"
                  /\ RegisteredFor(orchAgents', s) = {}
      ]_vars

\* The registrations of the agents that were assigned a task are released.
StopWorkflowReleasesAssignedAgents ==
    [][\A s \in Sessions :
           SvcStopSession(s) /\ workflow[s].status # "none"
               => /\ workflow'[s].status = "stopped"
                  /\ RegisteredFor(orchAgents', s) \cap workflow[s].activeAgents = {}
      ]_vars

\* The step is the orchestrator's handling of an error_report for session s.
ErrorReportHandled(s) ==
    /\ AgentMessageHandled(s)
    /\ workflow[s].status # "none"
    /\ Head(inflight).msg.type = "error_report"

\* The report is critical, its task id names an active task of wf, and an agent
\* other than the failed one has the failed agent's specialization.
Recoverable(wf, failedAgent, payload) ==
    /\ payload.severity = "critical"
    /\ \E i \in DOMAIN wf.activeTasks : wf.activeTasks[i].id = payload.taskId
    /\ \E r \in RegisteredIds :
           r # failedAgent /\ SpecializationOf(r) = SpecializationOf(failedAgent)

\* C28: handling an error_report changes the workflow or publishes a message
\* only if its severity is critical, its task id names an active task and a
\* replacement agent exists; in every other case the tasks, the phase and the
\* active agents of the workflow are unchanged and nothing is published.
C28_ErrorReportWithoutRecoveryChangesNothing ==
    [][\A s \in Sessions :
           /\ ErrorReportHandled(s)
           /\ ~Recoverable(workflow[s], Head(inflight).ch[2], Head(inflight).msg.payload)
           => /\ TasksAndPhaseUnchanged(s)
              /\ workflow'[s].activeAgents = workflow[s].activeAgents
              /\ orchAgents' = orchAgents
              /\ published' = published
      ]_vars

\* The orchestrator has handled the published error report i for session s.
ErrorHandled(s, i) ==
    /\ published[i].msg.type = "error_report"
    /\ published[i].msg.sessionId = s
    /\ \E h \in DOMAIN workflow[s].messageHistory :
           workflow[s].messageHistory[h] = published[i].msg.id

\* C28's cases: the orchestrator has handled a critical report that names an
\* active task, a report of severity high, and a report without a task id.
C28_Witness ==
    \E s \in Sessions :
        /\ \E i \in DOMAIN published :
               /\ ErrorHandled(s, i)
               /\ published[i].msg.payload.severity = "critical"
               /\ \E t \in DOMAIN workflow[s].activeTasks :
                      /\ workflow[s].activeTasks[t].id = published[i].msg.payload.taskId
                      /\ workflow[s].activeTasks[t].status = "assigned"
        /\ workflow[s].currentPhase = "analysis"

\* The orchestrator has handled a report of severity high.
HighSeverityReportHandled ==
    \E s \in Sessions : \E i \in DOMAIN published :
        ErrorHandled(s, i) /\ published[i].msg.payload.severity = "high"

\* The orchestrator has handled a critical report without a task id.
ReportWithoutTaskHandled ==
    \E s \in Sessions : \E i \in DOMAIN published :
        ErrorHandled(s, i) /\ published[i].msg.payload.taskId = Absent

TaskStatuses ==
    {"pending", "assigned", "in_progress", "waiting_for_clarification", "completed",
     "failed", "reassigned"}

\* C29: the status of every task the orchestrator holds, in activeTasks or in
\* completedTasks, is one of pending, assigned, in_progress,
\* waiting_for_clarification, completed, failed, reassigned.
C29_TaskStatusIsOfTheEnumeration ==
    \A s \in Sessions :
        /\ \A i \in DOMAIN workflow[s].activeTasks :
               workflow[s].activeTasks[i].status \in TaskStatuses
        /\ \A i \in DOMAIN workflow[s].completedTasks :
               workflow[s].completedTasks[i].status \in TaskStatuses

(***************************************************************************)
(* Properties of the runtimes across sessions.                             *)
(***************************************************************************)
\* The service holds agent a as active in session s.
RunsIn(s, a) == \E i \in DOMAIN svcAgents : svcAgents[i] = Key(s, a)

\* The step leaves the runtime of agent a as session s uses it: its tasks are
\* not cleared, it is not set offline, and the session it reports to is s.
RuntimeKept(s, a) ==
    /\ agent'[a].currentTasks = agent[a].currentTasks
    /\ agent[a].status # "offline" => agent'[a].status # "offline"
    /\ agent[a].activeSession = s => agent'[a].activeSession = s

\* C30: the state of a runtime is per (agent, session): the start of a second
\* session that uses the same agent, and the stop of one of two running
\* sessions, leave the runtime of the other session as it is.
C30_RuntimePerAgentAndSession ==
    [][\A s \in Sessions : \A other \in Sessions \ {s} : \A a \in Agents :
           RunsIn(s, a) /\ (SvcActivateAgent(other) \/ SvcStopSession(other))
               => RuntimeKept(s, a)
      ]_vars

\* The start of a second session leaves the runtimes of the first as they are.
SecondStartKeepsRuntime ==
    [][\A s \in Sessions : \A other \in Sessions \ {s} : \A a \in Agents :
           RunsIn(s, a) /\ SvcActivateAgent(other) => RuntimeKept(s, a)
      ]_vars

\* The stop of session s10 leaves the runtimes of session s1 as they are.
StopOfOtherSessionKeepsRuntime ==
    [][\A a \in Agents :
           RunsIn(Session, a) /\ SvcStopSession(Session10) => RuntimeKept(Session, a)
      ]_vars


(***************************************************************************)
(* Properties of the handler invocations.                                  *)
(***************************************************************************)
\* C31: for each (session, agent) inbound stream at most one invocation of the
\* subscriber's handler is in progress at any time, in both broker modes: the
\* next message of the stream is not handed to the handler before the handling
\* of the one before has finished.
C31_OneHandlerInProgress ==
    \A r \in Recipients : Len(running[r]) <= 1

\* The same of the durable broker alone, whose consumer loop awaits the handler.
DurableOneHandlerInProgress ==
    mode = "durable" => \A r \in Recipients : Len(running[r]) <= 1

\* The consumer loop of the durable broker has a handler in progress while the
\* stream holds a further entry.
DurableHandlerInProgressWithBacklog ==
    /\ mode = "durable"
    /\ \E r \in Recipients : Len(running[r]) = 1 /\ lastRead[r] < Len(stream[r])


(***************************************************************************)
(* Properties of the task lists of a workflow.                             *)
(***************************************************************************)
\* The ids of a list of tasks are distinct
DistinctIds(tasks) ==
    \A i, j \in DOMAIN tasks : i # j => tasks[i].id # tasks[j].id

\* The tasks the orchestrator created for the workflow session s has now: those
\* of the assignments it published from the last startSession of s on.
TasksCreated(s) ==
    LET mine == {i \in DOMAIN published :
                    /\ published[i].msg.sessionId = s
                    /\ published[i].msg.type = "task_assignment"
                    /\ published[i].msg.fromAgent = "orchestrator"}
        starts == {i \in mine : published[i].msg.payload.task.type = RequirementsAnalysis}
    IN {published[i].msg.payload.task.id :
            i \in {k \in mine : \A j \in starts : j <= k}}

\* C32: in every reachable workflow state no task id occurs twice in
\* activeTasks, none occurs twice in completedTasks, none occurs in both, and
\* the total getWorkflowStatus reports is the number of distinct tasks created.
C32_TaskIdsNeverDuplicated ==
    \A s \in Sessions :
        LET wf == workflow[s]
        IN /\ DistinctIds(wf.activeTasks)
           /\ DistinctIds(wf.completedTasks)
           /\ \A i \in DOMAIN wf.activeTasks : \A j \in DOMAIN wf.completedTasks :
                  wf.activeTasks[i].id # wf.completedTasks[j].id
           /\ wf.status # "none" =>
                  GetWorkflowStatus(wf).progress.total = Cardinality(TasksCreated(s))

\* The orchestrator has handled two completion reports of one task of a
\* workflow with three tasks.
\* The orchestrator has handled a critical error report about an active task
\* after the analysis was completed.
CriticalReportHandledAfterPlanning ==
    LET wf == workflow[Session]
    IN \E i \in DOMAIN published :
           /\ published[i].msg.fromAgent = "user"
           /\ published[i].msg.type = "error_report"
           /\ \E k \in DOMAIN wf.messageHistory :
                  wf.messageHistory[k] = published[i].msg.id
           /\ \E k \in DOMAIN wf.activeTasks :
                  wf.activeTasks[k].id = published[i].msg.payload.taskId
           /\ wf.currentPhase = "implementation"

C32_Witness ==
    LET wf == workflow[Session]
        handled == {i \in DOMAIN published :
                       /\ published[i].msg.fromAgent = "user"
                       /\ \E k \in DOMAIN wf.messageHistory :
                              wf.messageHistory[k] = published[i].msg.id}
    IN /\ \E i, j \in handled :
              /\ i < j
              /\ published[i].msg.type = "task_completion"
              /\ published[j].msg.type = "task_completion"
              /\ published[i].msg.payload.taskId = published[j].msg.payload.taskId
              /\ \E k \in DOMAIN wf.completedTasks :
                     wf.completedTasks[k].id = published[i].msg.payload.taskId
       /\ GetWorkflowStatus(wf).progress.total = 3


(***************************************************************************)
(* Properties of the subscriptions.                                        *)
(***************************************************************************)
\* The types of the messages a runtime addresses to the orchestrator.
ReportTypes ==
    {"task_progress", "task_completion", "error_report", "agent_question",
     "collaboration_request"}

\* The PUBLISH commands of the step that carry a report of a runtime to the
\* recipient "orchestrator".
ReportsPublished(before, after) ==
    {i \in DOMAIN after \ DOMAIN before :
        /\ after[i].to = "orchestrator"
        /\ after[i].msg.fromAgent \in Agents
        /\ after[i].msg.type \in ReportTypes}

\* The callbacks with the orchestrator's handler that message id, published
\* to session s, is waiting for.
OrchCallbacksOf(queue, s, id) ==
    {k \in DOMAIN queue :
        queue[k].who = "orch" /\ queue[k].ch[1] = s /\ queue[k].msg.id = id}

\* C33: every message a runtime addresses to the recipient "orchestrator" in
\* session s is passed to the orchestrator's handleAgentMessage for s: the
\* orchestrator holds a subscription on the channel the message is published
\* to, so the PUBLISH leaves a callback with its handler to run.  (A PUBLISH is
\* stored nowhere: a message that reaches no subscriber then reaches none
\* later.)
C33_ReportsReachTheOrchestrator ==
    [][ \A i \in ReportsPublished(published, published') :
            OrchCallbacksOf(inflight', published'[i].msg.sessionId,
                            published'[i].msg.id) # {}
      ]_vars


\* The PUBLISH commands that carry the requirements analysis assignment of a
\* startSession of session s.
StartAssignments(s) ==
    {i \in DOMAIN published :
        /\ published[i].msg.sessionId = s
        /\ published[i].msg.type = "task_assignment"
        /\ published[i].msg.fromAgent = "orchestrator"
        /\ published[i].msg.payload.task.type = RequirementsAnalysis}

\* handleMessage of runtime a was called with message id.
ArrivedAt(a, id) == \E k \in DOMAIN arrived[a] : arrived[a][k].id = id

\* C34: the task_assignment the orchestrator publishes during startSession is
\* received by the handler of the architecture runtime, although the runtime
\* subscribes after it: once the agents of the session are activated and no
\* callback is left to run, handleMessage of architectrix has been called
\* with it.
C34_StartAssignmentIsReceived ==
    \A s \in Sessions :
        (starting[s] = <<>> /\ inflight = <<>>)
        => \A i \in StartAssignments(s) : ArrivedAt(Architectrix, published[i].msg.id)

\* The assignment of a second startSession of a session, published when the
\* runtime was subscribed, has arrived.
SecondStartAssignmentArrived ==
    \E s \in Sessions : \E i, j \in StartAssignments(s) :
        /\ i < j
        /\ ~ArrivedAt(Architectrix, published[i].msg.id)
        /\ ArrivedAt(Architectrix, published[j].msg.id)


(***************************************************************************)
(* Properties of the assignments of the orchestrator.                      *)
(***************************************************************************)
\* The PUBLISH commands that carry an assignment of the orchestrator to an
\* agent that has a runtime.
OrchAssignments ==
    {i \in DOMAIN published :
        /\ published[i].msg.type = "task_assignment"
        /\ published[i].msg.fromAgent = "orchestrator"
        /\ published[i].to \in Agents}

\* C35: every task the orchestrator assigns satisfies canHandleTask on the
\* runtime of its assigned agent (the requirements_analysis task on the
\* architecture agent, each <specialization>_implementation task on the agent
\* of that specialization), so none is dropped as a capability mismatch.
C35_AssignedTaskCanBeHandled ==
    \A i \in OrchAssignments :
        CanHandleTask(published[i].to, published[i].msg.payload.task)

\* The same of the implementation tasks alone.
ImplementationTaskCanBeHandled ==
    \A i \in OrchAssignments :
        published[i].msg.payload.task.type # RequirementsAnalysis
        => CanHandleTask(published[i].to, published[i].msg.payload.task)

\* An implementation task was assigned to an agent that has a runtime.
ImplementationTaskAssignedToRuntime ==
    \E i \in OrchAssignments :
        published[i].msg.payload.task.type # RequirementsAnalysis

\* The architecture runtime was handed an assignment of the orchestrator and
\* reported it as one it cannot handle.
AnalysisAssignmentDropped ==
    \E i \in OrchAssignments : \E j \in DOMAIN published :
        /\ ArrivedAt(Architectrix, published[i].msg.id)
        /\ j > i
        /\ published[j].msg.type = "error_report"
        /\ published[j].msg.fromAgent = Architectrix
        /\ published[j].msg.payload.severity = "low"


\* C36: two subscriptions registered for the same agent id (the runtime's and
\* the orchestrator's for one session, or the same agent in two sessions) keep
\* distinct handlers whatever the timing of the two subscribe calls: every
\* subscription invokes the handler it was registered with.
C36_SubscriptionInvokesItsHandler ==
    \A k \in DOMAIN pev : pev[k].invoked = pev[k].registered

\* The subscriptions of the channels
Subscriptions ==
    {listeners[ch][i] : <<ch, i>> \in {<<c, j>> \in Channels \X (1 .. MaxSubscriptions) :
                                          j \in DOMAIN listeners[c]}}

\* The same of subscriptions made in different milliseconds or for different
\* agents.
DistinctConsumerIdsInvokeTheirHandlers ==
    (\A x, y \in Subscriptions : x.consumerId = y.consumerId => x = y)
    => \A k \in DOMAIN pev : pev[k].invoked = pev[k].registered

\* Two subscriptions with different handlers and different consumer ids have
\* both been handed a message.
TwoHandlersInvoked ==
    /\ \A x, y \in Subscriptions : x.consumerId = y.consumerId => x = y
    /\ \E j, k \in DOMAIN pev : pev[j].invoked # pev[k].invoked


(***************************************************************************)
(* Properties of the progress reports.                                     *)
(***************************************************************************)
\* The message of that id, as it was published.
PublishedMessage(id) ==
    published[CHOOSE i \in DOMAIN published : published[i].msg.id = id].msg

\* C37: every task_progress message an agent emits while executing task T
\* carries T's id and the id of the session T belongs to, also when the runtime
\* holds several registered tasks at once or has been initialised for more
\* than one session.
C37_ProgressCarriesItsTaskAndSession ==
    \A k \in DOMAIN pev :
        pev[k].kind = "progress"
        => /\ PublishedMessage(pev[k].id).type = "task_progress"
           /\ PublishedMessage(pev[k].id).payload.taskId = pev[k].task
           /\ PublishedMessage(pev[k].id).sessionId = pev[k].session

\* The same of a runtime that was initialised for one session and never held
\* two tasks at once.
LoneTaskProgressCarriesItsTaskAndSession ==
    ( /\ \A s \in Sessions : Cardinality(StartsOf(s)) <= 1
      /\ \E s \in Sessions : StartsOf(s) = {}
      /\ UserAssignmentsSent <= 1 )
    => C37_ProgressCarriesItsTaskAndSession

\* A task was executed to its end by a runtime initialised for one session.
LoneTaskExecuted ==
    /\ \E s \in Sessions : StartsOf(s) = {}
    /\ UserAssignmentsSent = 1
    /\ Len(pev) = 1 + Len(GenerateCodeStatuses)
    /\ agent[CodeConjurer].metrics.tasksCompleted = 1

\* The task id alone is wrong: a runtime initialised for one session reports
\* the progress of a task under the id of another.
ProgressUnderAnotherTaskId ==
    /\ \E s \in Sessions : StartsOf(s) = {}
    /\ \E k \in DOMAIN pev :
           /\ PublishedMessage(pev[k].id).payload.taskId # pev[k].task
           /\ PublishedMessage(pev[k].id).sessionId = pev[k].session

\* The session alone is wrong.
ProgressUnderAnotherSession ==
    \E k \in DOMAIN pev :
        /\ PublishedMessage(pev[k].id).payload.taskId = pev[k].task
        /\ PublishedMessage(pev[k].id).sessionId # pev[k].session


(***************************************************************************)
(* Properties of the failing publishes.                                    *)
(***************************************************************************)
\* The last sendMessage call threw.
LastSendThrew == outcome.ids = <<>> /\ outcome.logged # <<>>

\* Nothing of message id is on a stream or channel, in the log or in the
\* history.
NothingOf(id) ==
    \A r \in Recipients :
        /\ PublishedEntriesOf(id, r) = {}
        /\ LogRecordsOf(id, r) = {}
        /\ PublishCommandsOf(id, r) = {}
        /\ HistoryRecordsOf(id, r) = {}

\* C38: a publish that reports failure has no effect: if sendMessage throws,
\* the message has not been appended to or published on any recipient's stream
\* and no audit record for it exists.
C38_FailedPublishHasNoEffect ==
    LastSendThrew => NothingOf(outcome.logged[1])

\* The same of a call whose first command was rejected.
FirstCommandRejectedHasNoEffect ==
    (LastSendThrew /\ outcome.logged[2] = 1) => NothingOf(outcome.logged[1])

FirstCommandRejected == LastSendThrew /\ outcome.logged[2] = 1

\* A fan-out stopped half way: the message is on the stream or channel of one
\* recipient and not of the other, and the call threw.
PartialFanOut ==
    /\ LastSendThrew
    /\ \E r, q \in Recipients :
           /\ PublishedEntriesOf(outcome.logged[1], r) \cup
                  PublishCommandsOf(outcome.logged[1], r) # {}
           /\ PublishedEntriesOf(outcome.logged[1], q) \cup
                  PublishCommandsOf(outcome.logged[1], q) = {}
           /\ \E m \in MQRequests \cup PSRequests :
                  \E k \in DOMAIN m.toAgent : m.toAgent[k] = q

\* The handler of a subscriber was handed a message whose sendMessage threw
\* and which has no audit record.
HandedWithoutAuditRecord ==
    /\ LastSendThrew
    /\ \A r \in Recipients :
           LogRecordsOf(outcome.logged[1], r) \cup HistoryRecordsOf(outcome.logged[1], r) = {}
    /\ \/ \E r \in Recipients : \E e \in Handed(r) :
              stream[r][e].msg.id = outcome.logged[1]
       \/ \E k \in DOMAIN pev : pev[k].id = outcome.logged[1]


(***************************************************************************)
(* Properties of the session operations.                                   *)
(***************************************************************************)
\* The keys of the service's activeAgents map for exactly session s
KeysOf(keys, s) == {keys[i] : i \in {j \in DOMAIN keys : keys[j] = Key(s, KeyAgent(keys[j]))}}

\* broadcastMessage(s) made one attempt per runtime activated for s, each to a
\* runtime activated for s.
BroadcastToOwnAgents(s) ==
    /\ Len(outcome'.ids) + Len(outcome'.logged) = Cardinality(ActiveIn(s))
    /\ \A j \in DOMAIN NewlyPublished : NewlyPublished[j].to \in ActiveIn(s)

\* stopSession(s) shut down no runtime that was not activated for s and left
\* the runtimes of the other sessions listed as active.
StopOwnAgents(s) ==
    /\ \A a \in Agents : a \notin ActiveIn(s) => agent'[a] = agent[a]
    /\ \A t \in Sessions \ {s} : KeysOf(svcAgents', t) = KeysOf(svcAgents, t)

\* getSessionStatus(s) reported the runtimes activated for s.
StatusOfOwnAgents(s) ==
    {st.id : st \in outcome'.agents} = ActiveIn(s)

\* C39: broadcastMessage(s), stopSession(s) and getSessionStatus(s) act only
\* on the runtimes activated for exactly session s: they never send to, shut
\* down or report agents of another session whose id has s as a prefix.
C39_SessionOperationsActOnOwnAgents ==
    [][ \A s \in Sessions :
            /\ SvcBroadcastMessage(s) => BroadcastToOwnAgents(s)
            /\ SvcStopSession(s) => StopOwnAgents(s)
            /\ SvcGetSessionStatus(s) => StatusOfOwnAgents(s)
      ]_vars

\* The three operations one by one.
BroadcastActsOnOwnAgents ==
    [][\A s \in Sessions : SvcBroadcastMessage(s) => BroadcastToOwnAgents(s)]_vars

StopActsOnOwnAgents ==
    [][\A s \in Sessions : SvcStopSession(s) => StopOwnAgents(s)]_vars

StatusActsOnOwnAgents ==
    [][\A s \in Sessions : SvcGetSessionStatus(s) => StatusOfOwnAgents(s)]_vars

\* The operations on the session whose id is no prefix of the other's.
Session10OperationsActOnOwnAgents ==
    [][ /\ SvcBroadcastMessage(Session10) => BroadcastToOwnAgents(Session10)
        /\ SvcStopSession(Session10) => StopOwnAgents(Session10)
        /\ SvcGetSessionStatus(Session10) => StatusOfOwnAgents(Session10)
      ]_vars

\* Session s10 was stopped, and its status asked for, while s1 had agents.
Session10StoppedBesideSession1 ==
    /\ workflow[Session10].status = "stopped"
    /\ ActiveIn(Session) # {}
    /\ "agents" \in DOMAIN outcome
    /\ outcome.workflow.status = "stopped"


(***************************************************************************)
(* Properties of the phases.                                               *)
(***************************************************************************)
\* C40: in every reachable state the current phase of a workflow is one of
\* analysis, planning, implementation: no operation of the orchestrator, the
\* completion of every active task included, moves a workflow to review or
\* completion.
C40_PhaseIsNeverReviewOrCompletion ==
    \A s \in Sessions :
        workflow[s].status # "none"
        => workflow[s].currentPhase \in {Phases[1], Phases[2], Phases[3]}

\* Every task of a workflow in phase implementation has been completed.
C40_Witness ==
    /\ workflow[Session].currentPhase = "implementation"
    /\ workflow[Session].activeTasks = <<>>
    /\ Len(workflow[Session].completedTasks) = 2

====
